---- MODULE Spec2Model ----
(***************************************************************************)
(* HardenerAI: one hardening run of the Orchestrator (src/src/orchestrator *)
(* .ts), started either directly through Orchestrator.harden or through    *)
(* the command line (src/src/cli.ts), with the RollbackManager             *)
(* (src/src/safety/rollbackManager.ts) it drives.                          *)
(*                                                                         *)
(* The file system is the shared state.  A file holds bytes; the program   *)
(* reads every target with fs.readFile(path, 'utf-8') and so sees the      *)
(* UTF-8 decoding of those bytes.  A failing fs call leaves the file as    *)
(* it was (the call is refused: EACCES, EROFS, EMFILE, ...).               *)
(*                                                                         *)
(* The components harden calls and that keep no state (FindingGrouper,     *)
(* RiskScorer, the sort of the plan, PatchEngine) are operators; each has  *)
(* a specification of its own that draws an input and applies it.          *)
(***************************************************************************)
EXTENDS Integers, Sequences, FiniteSets, TLC

\* ------------------------------------------------------------------ bounds
MaxPatches == 2

Resources == {"r1", "r2"}

\* File contents.  "conf" is a configuration file that is valid UTF-8;
\* "confLatin1" is the same file with one Latin-1 byte (0xE9) in a comment,
\* which is not valid UTF-8.
DiskContents == {"conf", "confLatin1"}

\* The disks a run starts on: the second resource is plain UTF-8.
InitialDisks == {d \in [Resources -> DiskContents] : d["r2"] = "conf"}

\* The texts a template can produce from a file: a fix that leaves the file
\* well formed, and a result that is not well formed (the input already
\* was not, e.g. an unbalanced brace).
AfterTexts == {"fixed", "broken"}

PatchTypes == {"nginx", "custom"}

\* ------------------------------------------------------------ file system
\* fs.readFile(path, 'utf-8'): bytes that are not valid UTF-8 are replaced
\* by U+FFFD; every other content decodes to itself.
Utf8Decode(bytes) == IF bytes = "confLatin1" THEN "confFFFD" ELSE bytes

\* fs.writeFile(path, text): the UTF-8 encoding of a text the program
\* holds.  Every text of the model is well formed, so its encoding is the
\* content of the same name.
WriteFile(d, r, text) == [d EXCEPT ![r] = text]

\* ------------------------------------------------------------------ state
VARIABLES
    entry,              \* "api": harden called directly; "cli": through main
    argv,               \* the parsed command line (cli entry)
    options,            \* OrchestratorOptions: apply, dryRun, enableRollback
    disk,               \* resource -> bytes on disk
    patches,            \* SecurityPatch[] of the run
    validationResults,  \* ValidationResult[]: passed, one per patch
    snapshot,           \* Snapshot.patches being collected by createSnapshot
    snapshotFile,       \* the persisted snapshot.json: <<>> or <<entries>>
    snapshotId,         \* '' (here "") until createSnapshot returns
    loaded,             \* the snapshot rollback has parsed
    cursor,             \* position of the running for-loop
    validationPassRate, \* harden's local: passed / validated, as a pair
    applyResult,        \* what applyPatches returned: "none", "true", "false"
    rollbackResults,    \* RollbackResult[]
    history,            \* history.json: the list under "rollbacks"
    statistics,         \* ReportStatistics of the report
    outcome,            \* "running", "report" (harden returned), "throw"
    exitCode,           \* process.exit code of the cli, -1 before it exits
    pc,                 \* position of the run
    origDisk,           \* history variable: the disk when the run started
    io,                 \* history variable: the fs calls on targets and on
                        \* the snapshot document, in order
    arg,                \* the input of a component that is called on its own
    result,             \* what that call returned
    called              \* whether it has returned

vars == <<entry, argv, options, disk, patches, validationResults, snapshot,
          snapshotFile, snapshotId, loaded, cursor, validationPassRate,
          applyResult, rollbackResults, history, statistics, outcome, exitCode, pc,
          origDisk, io, arg, result, called>>

\* The variables of a run of harden.
hardenVars == <<entry, argv, options, disk, patches, validationResults, snapshot,
                snapshotFile, snapshotId, loaded, cursor, validationPassRate,
                applyResult, rollbackResults, history, statistics, outcome,
                exitCode, pc, origDisk, io>>

NoStatistics == [patchedCount |-> 0, passed |-> 0, validated |-> 0,
                 rollbackOk |-> 0, rollbackAll |-> 0, computed |-> FALSE]

Ev(op, stage, patchId, r, text) ==
    [op |-> op, stage |-> stage, patchId |-> patchId, resource |-> r, text |-> text]

\* ---------------------------------------------------------------- cli.ts
\* minimist: boolean flags, 'dry-run' defaults to true; "--dry-run" gives
\* true, "--no-dry-run" gives false.
ArgvDryRun(a) == a.dryRun # "--no-dry-run"

DryRunOption(a) == ArgvDryRun(a) /\ ~a.apply

CliOptions(a) ==
    [dryRun |-> DryRunOption(a),
     apply |-> a.apply = TRUE,
     enableRollback |-> a.enableRollback = TRUE]

NoArgv == [dryRun |-> "absent", apply |-> FALSE, enableRollback |-> FALSE,
           early |-> "none"]

ArgvSet ==
    [dryRun : {"absent", "--dry-run", "--no-dry-run"},
     apply : BOOLEAN,
     enableRollback : BOOLEAN,
     early : {"none", "help", "init-config"}]

OptionSet == [dryRun : BOOLEAN, apply : BOOLEAN, enableRollback : BOOLEAN]

\* What a run starts from, whoever starts it.
Fresh ==
    /\ disk \in InitialDisks
    /\ origDisk = disk
    /\ patches = <<>>
    /\ validationResults = <<>>
    /\ snapshot = <<>>
    /\ snapshotFile = <<>>
    /\ snapshotId = ""
    /\ loaded = <<>>
    /\ cursor = 0
    /\ validationPassRate = [num |-> 0, den |-> 0]
    /\ applyResult = "none"
    /\ rollbackResults = <<>>
    /\ history = <<>>
    /\ statistics = NoStatistics
    /\ outcome = "running"
    /\ exitCode = -1
    /\ io = <<>>

\* No component is called on its own.
NotCalled ==
    /\ arg = <<>>
    /\ result = <<>>
    /\ called = FALSE

\* Orchestrator.harden called directly, with any options (an option left
\* out is undefined, which every test of it treats as false).
Init ==
    /\ entry = "api"
    /\ argv = NoArgv
    /\ options \in OptionSet
    /\ pc = "generate"
    /\ Fresh
    /\ NotCalled

\* The command line: main has parsed argv and not yet built the options.
CliInit ==
    /\ entry = "cli"
    /\ argv \in ArgvSet
    /\ options = [dryRun |-> FALSE, apply |-> FALSE, enableRollback |-> FALSE]
    /\ pc = "main"
    /\ Fresh
    /\ NotCalled

\* main(): --help and --init-config leave before the Orchestrator starts.
CliEarlyExit ==
    /\ pc = "main"
    /\ argv.early # "none"
    /\ pc' = "exit"
    /\ exitCode' = 0
    /\ UNCHANGED <<arg, result, called, entry, argv, options, disk, patches, validationResults,
                   snapshot, snapshotFile, snapshotId, loaded, cursor,
                   validationPassRate, applyResult, rollbackResults, history, statistics,
                   outcome, origDisk, io>>

CliMain ==
    /\ pc = "main"
    /\ argv.early = "none"
    /\ options' = CliOptions(argv)
    /\ pc' = "generate"
    /\ UNCHANGED <<arg, result, called, entry, argv, disk, patches, validationResults,
                   snapshot, snapshotFile, snapshotId, loaded, cursor,
                   validationPassRate, applyResult, rollbackResults, history, statistics,
                   outcome, exitCode, origDisk, io>>

\* process.exit(0) after harden returned, process.exit(1) after it threw.
CliExit ==
    /\ entry = "cli"
    /\ pc \in {"done", "failed"}
    /\ exitCode' = (IF outcome = "report" THEN 0 ELSE 1)
    /\ pc' = "exit"
    /\ UNCHANGED <<arg, result, called, entry, argv, options, disk, patches, validationResults,
                   snapshot, snapshotFile, snapshotId, loaded, cursor,
                   validationPassRate, applyResult, rollbackResults, history, statistics,
                   outcome, origDisk, io>>

\* ------------------------------------------------- patchEngine, validator
\* What generatePatches can return for the files on disk: every patch was
\* made from the text read from its resource, differs from it, and starts
\* with applied = false.  Several patches may target one resource.
PatchSet(d) ==
    {p \in [resource : Resources, type : PatchTypes,
            before : {Utf8Decode(c) : c \in DiskContents},
            after : AfterTexts, applied : {FALSE}] :
        /\ p.before = Utf8Decode(d[p.resource])
        /\ p.after # p.before}

PatchLists(d) == UNION {[1..n -> PatchSet(d)] : n \in 0..MaxPatches}

\* validateNginx and its siblings look at patch.after only.
SyntaxOk(text) == text # "broken"

\* Mutant: a type without a validator is validated like the others.
ValidatePatchOfAnyType(p) ==
    [passed |-> SyntaxOk(p.after)]

\* Validator.validatePatch: a type without a validator fails at once.
ValidatePatch(p) ==
    [passed |-> IF p.type = "custom" THEN FALSE ELSE SyntaxOk(p.after)]

PassedCount(results) == Cardinality({i \in DOMAIN results : results[i].passed})

\* ------------------------------------------------------- orchestrator.ts
\* Step 3.
GeneratePatches ==
    /\ pc = "generate"
    /\ patches' \in PatchLists(disk)
    /\ pc' = "validate"
    /\ UNCHANGED <<arg, result, called, entry, argv, options, disk, validationResults, snapshot,
                   snapshotFile, snapshotId, loaded, cursor, validationPassRate,
                   applyResult, rollbackResults, history, statistics, outcome,
                   exitCode, origDisk, io>>

\* Step 4, one promise of patches.map(validatePatch) settles, in any order;
\* until Promise.all resolves, validationResults holds the results of the
\* promises that have settled, each at the index of its patch.
ValidateOne ==
    /\ pc = "validate"
    /\ \E i \in DOMAIN patches \ DOMAIN validationResults :
           validationResults' =
               [k \in DOMAIN validationResults \cup {i} |->
                   IF k = i THEN ValidatePatch(patches[i]) ELSE validationResults[k]]
    /\ UNCHANGED <<arg, result, called, entry, argv, options, disk, patches, snapshot,
                   snapshotFile, snapshotId, loaded, cursor, validationPassRate,
                   applyResult, rollbackResults, history, statistics, outcome,
                   exitCode, pc, origDisk, io>>

\* Mutant: Promise.all gives up waiting at the first failed validation and
\* the patches that were not validated count as passed.
ValidatePatchesAbortEarly ==
    /\ pc = "validate"
    /\ \/ DOMAIN validationResults = DOMAIN patches
       \/ \E i \in DOMAIN validationResults : ~validationResults[i].passed
    /\ validationResults' =
           [i \in DOMAIN patches |->
               IF i \in DOMAIN validationResults THEN validationResults[i]
               ELSE [passed |-> TRUE]]
    /\ validationPassRate' = [num |-> PassedCount(validationResults'),
                              den |-> Len(validationResults')]
    /\ pc' = "step5"
    /\ UNCHANGED <<arg, result, called, entry, argv, options, disk, patches, snapshot,
                   snapshotFile, snapshotId, loaded, cursor,
                   applyResult, rollbackResults, history, statistics, outcome,
                   exitCode, origDisk, io>>

\* Step 4: Promise.all resolves when every promise has settled, with the
\* results in the order of the patches; then the pass rate.
ValidatePatches ==
    /\ pc = "validate"
    /\ DOMAIN validationResults = DOMAIN patches
    /\ validationResults' = [i \in DOMAIN patches |-> validationResults[i]]
    /\ validationPassRate' = [num |-> PassedCount(validationResults'),
                              den |-> Len(validationResults')]
    /\ pc' = "step5"
    /\ UNCHANGED <<arg, result, called, entry, argv, options, disk, patches, snapshot,
                   snapshotFile, snapshotId, loaded, cursor,
                   applyResult, rollbackResults, history, statistics, outcome,
                   exitCode, origDisk, io>>

\* Mutant: dryRun is not consulted.
ApplyRequestedIgnoringDryRun(o) == o.apply

\* if (options.apply && !options.dryRun)
ApplyRequested(o) == o.apply /\ ~o.dryRun

\* Step 5, else branch: dry-run mode, nothing is applied.
Step5DryRun ==
    /\ pc = "step5"
    /\ ~ApplyRequested(options)
    /\ pc' = "report"
    /\ UNCHANGED <<arg, result, called, entry, argv, options, disk, patches, validationResults,
                   snapshot, snapshotFile, snapshotId, loaded, cursor,
                   validationPassRate, applyResult, rollbackResults, history,
                   statistics, outcome, exitCode, origDisk, io>>

\* Step 5: with rollback enabled createSnapshot runs first.
Step5Apply ==
    /\ pc = "step5"
    /\ ApplyRequested(options)
    /\ pc' = (IF options.enableRollback THEN "createSnapshot" ELSE "applyPatches")
    /\ cursor' = 1
    /\ UNCHANGED <<arg, result, called, entry, argv, options, disk, patches, validationResults,
                   snapshot, snapshotFile, snapshotId, loaded,
                   validationPassRate, applyResult, rollbackResults, history,
                   statistics, outcome, exitCode, origDisk, io>>

\* ---------------------------------------------------- rollbackManager.ts
\* A throw inside harden's try block: logged and rethrown, no report.
Throw ==
    /\ pc' = "failed"
    /\ outcome' = "throw"

\* createSnapshot: fs.mkdir of the snapshot directory.
SnapshotMkdir ==
    /\ pc = "createSnapshot"
    /\ pc' = "snapshotRead"
    /\ UNCHANGED <<arg, result, called, entry, argv, options, disk, patches, validationResults,
                   snapshot, snapshotFile, snapshotId, loaded, cursor,
                   validationPassRate, applyResult, rollbackResults, history,
                   statistics, outcome, exitCode, origDisk, io>>

SnapshotMkdirFail ==
    /\ pc = "createSnapshot"
    /\ Throw
    /\ UNCHANGED <<arg, result, called, entry, argv, options, disk, patches, validationResults,
                   snapshot, snapshotFile, snapshotId, loaded, cursor,
                   validationPassRate, applyResult, rollbackResults, history,
                   statistics, exitCode, origDisk, io>>

\* createSnapshot, loop body: the resource is read and its entry pushed.
SnapshotRead ==
    /\ pc = "snapshotRead"
    /\ cursor <= Len(patches)
    /\ LET patch == patches[cursor]
           originalContent == Utf8Decode(disk[patch.resource])
       IN /\ snapshot' = Append(snapshot,
                 [patchId |-> cursor, resource |-> patch.resource,
                  originalContent |-> originalContent])
          /\ io' = Append(io, Ev("read", "snapshot", cursor, patch.resource, originalContent))
    /\ cursor' = cursor + 1
    /\ UNCHANGED <<arg, result, called, entry, argv, options, disk, patches, validationResults,
                   snapshotFile, snapshotId, loaded, validationPassRate,
                   applyResult, rollbackResults, history, statistics, outcome,
                   exitCode, pc, origDisk>>

\* createSnapshot, loop body: the read throws, a warning, no entry.
SnapshotReadFail ==
    /\ pc = "snapshotRead"
    /\ cursor <= Len(patches)
    /\ io' = Append(io, Ev("readFail", "snapshot", cursor, patches[cursor].resource, ""))
    /\ cursor' = cursor + 1
    /\ UNCHANGED <<arg, result, called, entry, argv, options, disk, patches, validationResults,
                   snapshot, snapshotFile, snapshotId, loaded,
                   validationPassRate, applyResult, rollbackResults, history,
                   statistics, outcome, exitCode, pc, origDisk>>

\* createSnapshot: snapshot.json is written and the id returned.
SnapshotPersist ==
    /\ pc = "snapshotRead"
    /\ cursor > Len(patches)
    /\ snapshotFile' = <<snapshot>>
    /\ snapshotId' = "id"
    /\ io' = Append(io, Ev("persist", "snapshot", 0, "snapshot.json", ""))
    /\ pc' = "applyPatches"
    /\ cursor' = 1
    /\ UNCHANGED <<arg, result, called, entry, argv, options, disk, patches, validationResults,
                   snapshot, loaded, validationPassRate, applyResult,
                   rollbackResults, history, statistics, outcome, exitCode,
                   origDisk>>

\* Mutant: the failure to write snapshot.json is swallowed.
SnapshotPersistFailSwallowed ==
    /\ pc = "snapshotRead"
    /\ cursor > Len(patches)
    /\ pc' = "applyPatches"
    /\ cursor' = 1
    /\ UNCHANGED <<arg, result, called, entry, argv, options, disk, patches, validationResults,
                   snapshot, snapshotFile, snapshotId, loaded,
                   validationPassRate, applyResult, rollbackResults, history,
                   statistics, outcome, exitCode, origDisk, io>>

SnapshotPersistFail ==
    /\ pc = "snapshotRead"
    /\ cursor > Len(patches)
    /\ Throw
    /\ UNCHANGED <<arg, result, called, entry, argv, options, disk, patches, validationResults,
                   snapshot, snapshotFile, snapshotId, loaded, cursor,
                   validationPassRate, applyResult, rollbackResults, history,
                   statistics, exitCode, origDisk, io>>

\* ------------------------------------------- orchestrator.ts, applyPatches
\* applyPatches, loop body: fs.writeFile succeeded.
ApplyWrite ==
    /\ pc = "applyPatches"
    /\ cursor <= Len(patches)
    /\ LET patch == patches[cursor]
       IN /\ disk' = WriteFile(disk, patch.resource, patch.after)
          /\ io' = Append(io, Ev("write", "apply", cursor, patch.resource, patch.after))
    /\ patches' = [patches EXCEPT ![cursor].applied = TRUE]
    /\ cursor' = cursor + 1
    /\ UNCHANGED <<arg, result, called, entry, argv, options, validationResults, snapshot,
                   snapshotFile, snapshotId, loaded, validationPassRate,
                   applyResult, rollbackResults, history, statistics, outcome,
                   exitCode, pc, origDisk>>

\* Mutant: the catch logs the failure and the loop goes on.
ApplyWriteFailContinue ==
    /\ pc = "applyPatches"
    /\ cursor <= Len(patches)
    /\ io' = Append(io, Ev("writeFail", "apply", cursor, patches[cursor].resource,
                           patches[cursor].after))
    /\ applyResult' = "false"
    /\ cursor' = cursor + 1
    /\ UNCHANGED <<arg, result, called, entry, argv, options, disk, patches, validationResults,
                   snapshot, snapshotFile, snapshotId, loaded,
                   validationPassRate, rollbackResults, history, statistics,
                   outcome, exitCode, pc, origDisk>>

\* Mutant: applied is set before the write is known to have succeeded.
ApplyWriteFailMarksApplied ==
    /\ pc = "applyPatches"
    /\ cursor <= Len(patches)
    /\ io' = Append(io, Ev("writeFail", "apply", cursor, patches[cursor].resource,
                           patches[cursor].after))
    /\ patches' = [patches EXCEPT ![cursor].applied = TRUE]
    /\ applyResult' = "false"
    /\ pc' = "step6"
    /\ UNCHANGED <<arg, result, called, entry, argv, options, disk, validationResults,
                   snapshot, snapshotFile, snapshotId, loaded, cursor,
                   validationPassRate, rollbackResults, history, statistics,
                   outcome, exitCode, origDisk>>

\* applyPatches, catch: a warning and return false.
ApplyWriteFail ==
    /\ pc = "applyPatches"
    /\ cursor <= Len(patches)
    /\ io' = Append(io, Ev("writeFail", "apply", cursor, patches[cursor].resource,
                           patches[cursor].after))
    /\ applyResult' = "false"
    /\ pc' = "step6"
    /\ UNCHANGED <<arg, result, called, entry, argv, options, disk, patches, validationResults,
                   snapshot, snapshotFile, snapshotId, loaded, cursor,
                   validationPassRate, rollbackResults, history, statistics,
                   outcome, exitCode, origDisk>>

\* applyPatches: the loop is over, return true.
ApplyReturn ==
    /\ pc = "applyPatches"
    /\ cursor > Len(patches)
    /\ applyResult' = "true"
    /\ pc' = "step6"
    /\ UNCHANGED <<arg, result, called, entry, argv, options, disk, patches, validationResults,
                   snapshot, snapshotFile, snapshotId, loaded, cursor,
                   validationPassRate, rollbackResults, history, statistics,
                   outcome, exitCode, origDisk, io>>

\* validationPassRate < 1.0; the rate of no patches is 0/0 = NaN, and no
\* comparison with NaN is true.
RateBelowOne(rate) == rate.den # 0 /\ rate.num < rate.den

\* Mutant: the pass rate is not consulted.
RollbackWheneverEnabled(o, rate, id) == o.enableRollback /\ id # ""

\* Step 6: options.enableRollback && validationPassRate < 1.0 && snapshotId
RollbackTriggered(o, rate, id) ==
    o.enableRollback /\ RateBelowOne(rate) /\ id # ""

Step6Rollback ==
    /\ pc = "step6"
    /\ RollbackTriggered(options, validationPassRate, snapshotId)
    /\ pc' = "rollback"
    /\ UNCHANGED <<arg, result, called, entry, argv, options, disk, patches, validationResults,
                   snapshot, snapshotFile, snapshotId, loaded, cursor,
                   validationPassRate, applyResult, rollbackResults, history,
                   statistics, outcome, exitCode, origDisk, io>>

Step6Skip ==
    /\ pc = "step6"
    /\ ~RollbackTriggered(options, validationPassRate, snapshotId)
    /\ pc' = "report"
    /\ UNCHANGED <<arg, result, called, entry, argv, options, disk, patches, validationResults,
                   snapshot, snapshotFile, snapshotId, loaded, cursor,
                   validationPassRate, applyResult, rollbackResults, history,
                   statistics, outcome, exitCode, origDisk, io>>

\* ------------------------------------------- rollbackManager.ts, rollback
\* rollback: snapshot.json is read and parsed.  JSON.stringify followed by
\* JSON.parse gives back every string of the entries as it was.
RollbackLoad ==
    /\ pc = "rollback"
    /\ snapshotFile # <<>>
    /\ loaded' = snapshotFile[1]
    /\ io' = Append(io, Ev("load", "rollback", 0, "snapshot.json", ""))
    /\ cursor' = 1
    /\ pc' = "rollbackLoop"
    /\ UNCHANGED <<arg, result, called, entry, argv, options, disk, patches, validationResults,
                   snapshot, snapshotFile, snapshotId, validationPassRate,
                   applyResult, rollbackResults, history, statistics, outcome,
                   exitCode, origDisk>>

\* rollback, outer catch: the document cannot be read; one synthetic
\* failure result (patchId 'unknown', here 0) and nothing is restored.
RollbackLoadFail ==
    /\ pc = "rollback"
    /\ rollbackResults' = <<[patchId |-> 0, success |-> FALSE]>>
    /\ io' = Append(io, Ev("loadFail", "rollback", 0, "snapshot.json", ""))
    /\ pc' = "report"
    /\ UNCHANGED <<arg, result, called, entry, argv, options, disk, patches, validationResults,
                   snapshot, snapshotFile, snapshotId, loaded, cursor,
                   validationPassRate, applyResult, history, statistics,
                   outcome, exitCode, origDisk>>

\* rollback, loop body: the entry's content is written back.
RollbackWrite ==
    /\ pc = "rollbackLoop"
    /\ cursor <= Len(loaded)
    /\ LET item == loaded[cursor]
       IN /\ disk' = WriteFile(disk, item.resource, item.originalContent)
          /\ io' = Append(io, Ev("restore", "rollback", item.patchId, item.resource,
                                 item.originalContent))
          /\ rollbackResults' = Append(rollbackResults,
                 [patchId |-> item.patchId, success |-> TRUE])
    /\ cursor' = cursor + 1
    /\ UNCHANGED <<arg, result, called, entry, argv, options, patches, validationResults, snapshot,
                   snapshotFile, snapshotId, loaded, validationPassRate,
                   applyResult, history, statistics, outcome, exitCode, pc,
                   origDisk>>

\* Mutant: a write that fails ends the loop.
RollbackWriteFailStops ==
    /\ pc = "rollbackLoop"
    /\ cursor <= Len(loaded)
    /\ LET item == loaded[cursor]
       IN /\ io' = Append(io, Ev("restoreFail", "rollback", item.patchId, item.resource,
                                 item.originalContent))
          /\ rollbackResults' = Append(rollbackResults,
                 [patchId |-> item.patchId, success |-> FALSE])
    /\ cursor' = Len(loaded) + 1
    /\ UNCHANGED <<arg, result, called, entry, argv, options, disk, patches, validationResults,
                   snapshot, snapshotFile, snapshotId, loaded,
                   validationPassRate, applyResult, history, statistics,
                   outcome, exitCode, pc, origDisk>>

\* rollback, inner catch: the write failed; a failure result, next entry.
RollbackWriteFail ==
    /\ pc = "rollbackLoop"
    /\ cursor <= Len(loaded)
    /\ LET item == loaded[cursor]
       IN /\ io' = Append(io, Ev("restoreFail", "rollback", item.patchId, item.resource,
                                 item.originalContent))
          /\ rollbackResults' = Append(rollbackResults,
                 [patchId |-> item.patchId, success |-> FALSE])
    /\ cursor' = cursor + 1
    /\ UNCHANGED <<arg, result, called, entry, argv, options, disk, patches, validationResults,
                   snapshot, snapshotFile, snapshotId, loaded,
                   validationPassRate, applyResult, history, statistics,
                   outcome, exitCode, pc, origDisk>>

SuccessCount(results) == Cardinality({i \in DOMAIN results : results[i].success})

\* recordRollback: one record is pushed on history.rollbacks and the file
\* written.
RecordRollback ==
    /\ pc = "rollbackLoop"
    /\ cursor > Len(loaded)
    /\ history' = Append(history,
           [snapshotId |-> snapshotId,
            successRate |-> [num |-> SuccessCount(rollbackResults),
                             den |-> Len(rollbackResults)],
            details |-> rollbackResults])
    /\ pc' = "report"
    /\ UNCHANGED <<arg, result, called, entry, argv, options, disk, patches, validationResults,
                   snapshot, snapshotFile, snapshotId, loaded, cursor,
                   validationPassRate, applyResult, rollbackResults,
                   statistics, outcome, exitCode, origDisk, io>>

\* recordRollback, catch: the history file cannot be written; a warning.
RecordRollbackFail ==
    /\ pc = "rollbackLoop"
    /\ cursor > Len(loaded)
    /\ pc' = "report"
    /\ UNCHANGED <<arg, result, called, entry, argv, options, disk, patches, validationResults,
                   snapshot, snapshotFile, snapshotId, loaded, cursor,
                   validationPassRate, applyResult, rollbackResults, history,
                   statistics, outcome, exitCode, origDisk, io>>

\* ------------------------------------------------ orchestrator.ts, Step 7
computeStatistics(ps, vr, rr) ==
    [patchedCount |-> Cardinality({i \in DOMAIN ps : ps[i].applied}),
     passed |-> IF Len(vr) > 0 THEN PassedCount(vr) ELSE 1,
     validated |-> IF Len(vr) > 0 THEN Len(vr) ELSE 1,
     rollbackOk |-> IF Len(rr) > 0 THEN SuccessCount(rr) ELSE 1,
     rollbackAll |-> IF Len(rr) > 0 THEN Len(rr) ELSE 1,
     computed |-> TRUE]

\* The report is built, written and recorded; harden returns it.
Report ==
    /\ pc = "report"
    /\ statistics' = computeStatistics(patches, validationResults, rollbackResults)
    /\ outcome' = "report"
    /\ pc' = "done"
    /\ UNCHANGED <<arg, result, called, entry, argv, options, disk, patches, validationResults,
                   snapshot, snapshotFile, snapshotId, loaded, cursor,
                   validationPassRate, applyResult, rollbackResults, history,
                   exitCode, origDisk, io>>

\* generateReport or recordRun throws: no report.
ReportFail ==
    /\ pc = "report"
    /\ Throw
    /\ UNCHANGED <<arg, result, called, entry, argv, options, disk, patches, validationResults,
                   snapshot, snapshotFile, snapshotId, loaded, cursor,
                   validationPassRate, applyResult, rollbackResults, history,
                   statistics, exitCode, origDisk, io>>

\* One run of harden.
Next ==
    \/ GeneratePatches \/ ValidateOne \/ ValidatePatches
    \/ Step5DryRun \/ Step5Apply
    \/ SnapshotMkdir \/ SnapshotMkdirFail
    \/ SnapshotRead \/ SnapshotReadFail
    \/ SnapshotPersist \/ SnapshotPersistFail
    \/ ApplyWrite \/ ApplyWriteFail \/ ApplyReturn
    \/ Step6Rollback \/ Step6Skip
    \/ RollbackLoad \/ RollbackLoadFail
    \/ RollbackWrite \/ RollbackWriteFail
    \/ RecordRollback \/ RecordRollbackFail
    \/ Report \/ ReportFail

Spec == Init /\ [][Next]_vars

\* One run of the command line, which runs harden.
CliNext == CliEarlyExit \/ CliMain \/ CliExit \/ Next

CliSpec == CliInit /\ [][CliNext]_vars

\* ================================================================ claims
\* The fs calls of the Apply stage, in order.
ApplyEvents == SelectSeq(io, LAMBDA e : e.stage = "apply")

ApplyWrites == {k \in DOMAIN io : io[k].op = "write"}

SnapshotCalls == {k \in DOMAIN io : io[k].stage = "snapshot"}

RollbackCalls == {k \in DOMAIN io : io[k].op \in {"load", "loadFail"}}

RestoreCalls == {k \in DOMAIN io : io[k].op \in {"restore", "restoreFail"}}

SnapshotEntries == IF snapshotFile = <<>> THEN {} ELSE
    {snapshotFile[1][k] : k \in DOMAIN snapshotFile[1]}

\* Step 6 is behind the run: the Apply stage ended and the rollback, if
\* any, returned.
PastStep6 == applyResult # "none" /\ pc \in {"report", "done", "failed", "exit"}

\* C1: with rollback enabled, every resource the Apply stage has
\* overwritten has an entry in the run's snapshot that holds the text the
\* resource had before the run wrote to it.
C1_SnapshotFirst ==
    options.enableRollback =>
        \A k \in ApplyWrites :
            \E e \in SnapshotEntries :
                /\ e.resource = io[k].resource
                /\ e.originalContent = Utf8Decode(origDisk[io[k].resource])

\* C2: the Apply stage never writes a patch whose ValidationResult has
\* passed = false.
C2_ValidationGate ==
    \A k \in ApplyWrites : validationResults[io[k].patchId].passed

\* C3: once rollback has returned, every resource for which a rollback
\* write succeeded holds exactly the content it had on disk when
\* createSnapshot read it.
C3_RollbackRestoresPreImage ==
    PastStep6 =>
        \A k \in DOMAIN io :
            io[k].op = "restore" => disk[io[k].resource] = origDisk[io[k].resource]

\* C4 as stated: in an apply run that is past Step 6, rollback was invoked
\* exactly when rollback is enabled and some validation failed, at most
\* once, after every fs call of the Apply stage, and every snapshot entry
\* was attempted once, in entry order.
C4_RollbackExactlyWhen ==
    PastStep6 =>
        /\ (RollbackCalls # {}) <=>
               (options.enableRollback /\
                \E i \in DOMAIN validationResults : ~validationResults[i].passed)
        /\ Cardinality(RollbackCalls) <= 1
        /\ \A k \in RollbackCalls : \A j \in DOMAIN io : io[j].stage = "apply" => j < k
        /\ RollbackCalls # {} =>
               /\ Cardinality(RestoreCalls) = Cardinality(DOMAIN snapshotFile[1])
               /\ \A e \in SnapshotEntries :
                      \E k \in RestoreCalls : io[k].patchId = e.patchId

\* C4, amended: the same, where every snapshot entry is attempted provided
\* rollback could load the snapshot document (when it cannot, rollback
\* returns one synthetic failure and attempts no entry).
C4_RollbackExactlyWhenLoadable ==
    PastStep6 =>
        /\ (RollbackCalls # {}) <=>
               (options.enableRollback /\
                \E i \in DOMAIN validationResults : ~validationResults[i].passed)
        /\ Cardinality(RollbackCalls) <= 1
        /\ \A k \in RollbackCalls : \A j \in DOMAIN io : io[j].stage = "apply" => j < k
        /\ (\E k \in RollbackCalls : io[k].op = "load") =>
               /\ Cardinality(RestoreCalls) = Cardinality(DOMAIN snapshotFile[1])
               /\ \A e \in SnapshotEntries :
                      \E k \in RestoreCalls : io[k].patchId = e.patchId
        /\ (\E k \in RollbackCalls : io[k].op = "loadFail") =>
               /\ RestoreCalls = {}
               /\ rollbackResults = <<[patchId |-> 0, success |-> FALSE]>>

\* C4, witness: a finished run whose Apply stage aborted and whose rollback
\* restored the resource of a patch that had passed validation.
C4_Witness ==
    /\ pc = "done"
    /\ applyResult = "false"
    /\ \E k \in DOMAIN io :
           /\ io[k].op = "restore"
           /\ validationResults[io[k].patchId].passed

\* C5: in a run where apply is not true or dryRun is true, no target is
\* written, no snapshot is made, every patch keeps applied = false,
\* rollbackResults is empty and statistics.patchedCount is 0.
C5_ApplyGated ==
    (~options.apply \/ options.dryRun) =>
        /\ disk = origDisk
        /\ io = <<>>
        /\ snapshot = <<>> /\ snapshotFile = <<>> /\ snapshotId = ""
        /\ \A i \in DOMAIN patches : ~patches[i].applied
        /\ rollbackResults = <<>>
        /\ statistics.patchedCount = 0

\* C5, witness: a finished run with patches that asked for apply and for
\* dryRun together.
C5_Witness ==
    /\ pc = "done"
    /\ options.apply /\ options.dryRun /\ options.enableRollback
    /\ Len(patches) = MaxPatches

\* C6: the Apply stage writes the patches one at a time in list order, and
\* a failed write is its last fs call: the failed patch and every later
\* one keep applied = false.
C6_SequentialFailFast ==
    /\ \A k \in DOMAIN ApplyEvents : ApplyEvents[k].patchId = k
    /\ \A k \in DOMAIN ApplyEvents :
           ApplyEvents[k].op = "writeFail" =>
               /\ k = Len(ApplyEvents)
               /\ \A j \in k..Len(patches) : ~patches[j].applied
    /\ \A i \in DOMAIN patches :
           patches[i].applied => \A j \in 1..i : patches[j].applied

\* C6, witness: a finished run whose first write failed with a later patch
\* left unwritten.
C6_Witness ==
    /\ pc = "done"
    /\ Len(patches) >= 2
    /\ Len(ApplyEvents) = 1 /\ ApplyEvents[1].op = "writeFail"

\* C7: when a patch write failed, the run does not end as a run that
\* applied its patches: harden does not return its report as after a full
\* apply, and the command line does not exit with 0.
C7_ApplyFailureReported ==
    applyResult = "false" => (outcome # "report" /\ exitCode # 0)

\* C8: with rollback enabled, every pre-image read and the write of the
\* snapshot document precede the first patch write, all of them are done
\* by then, and a run in which createSnapshot threw has written nothing.
C8_SnapshotBarrier ==
    (options.enableRollback /\ options.apply /\ ~options.dryRun) =>
        /\ \A k \in ApplyWrites : \A j \in SnapshotCalls : j < k
        /\ ApplyEvents # <<>> =>
               /\ \E j \in SnapshotCalls : io[j].op = "persist"
               /\ \A i \in DOMAIN patches :
                      \E j \in SnapshotCalls :
                          io[j].op \in {"read", "readFail"} /\ io[j].patchId = i
        /\ snapshotId = "" => (ApplyEvents = <<>> /\ disk = origDisk)
        /\ pc \in {"applyPatches", "step6", "rollback", "rollbackLoop", "done"} =>
               snapshotId # ""

\* C8, witness: createSnapshot threw after it had read a pre-image, and the
\* run ended as a failure.
C8_Witness ==
    /\ pc = "failed" /\ outcome = "throw"
    /\ options.enableRollback
    /\ snapshot # <<>> /\ snapshotFile = <<>>

\* C9: patches are created with applied = false; applied = true implies
\* that the run has written patch.after to patch.resource; and
\* statistics.patchedCount is the number of patches with applied = true.
C9_AppliedMeansWritten ==
    /\ pc \in {"validate", "step5", "createSnapshot", "snapshotRead"} =>
           \A i \in DOMAIN patches : ~patches[i].applied
    /\ \A i \in DOMAIN patches :
           patches[i].applied =>
               \E k \in ApplyWrites :
                   /\ io[k].patchId = i
                   /\ io[k].resource = patches[i].resource
                   /\ io[k].text = patches[i].after
    /\ statistics.computed =>
           statistics.patchedCount = Cardinality({i \in DOMAIN patches : patches[i].applied})

\* C9, witness: a report with one patch applied and one not.
C9_Witness ==
    /\ pc = "done"
    /\ statistics.patchedCount = 1
    /\ Len(patches) = 2
    /\ ~patches[2].applied

\* C10: a command line with --dry-run writes no target file whatever the
\* other flags are, and a command line without --apply writes none.
C10_DryRunFlagWritesNothing ==
    entry = "cli" =>
        /\ argv.dryRun = "--dry-run" => (ApplyWrites = {} /\ disk = origDisk)
        /\ ~argv.apply => (ApplyWrites = {} /\ disk = origDisk)

(***************************************************************************)
(* Numbers.  A JavaScript number is an IEEE-754 binary64 value.  A         *)
(* positive one is kept as its 53 significant bits, most significant       *)
(* first, and the exponent of the first bit: bits b1 b2 ... b53 and        *)
(* exponent e stand for (b1.b2...b53) * 2^e.  Division and multiplication  *)
(* compute the exact result and round it to the nearest such value, ties   *)
(* to the even one.  The arithmetic on the bits goes a limb of 13 bits at *)
(* a time (53 = 1 + 4 * 13), which keeps every product below 2^31.        *)
(***************************************************************************)
MantissaBits == 53

LimbBits == 13
Limbs == 4

RECURSIVE Pow2(_)
Pow2(k) == IF k = 0 THEN 1 ELSE 2 * Pow2(k - 1)

\* The k bits of v, and the value of a sequence of bits.
ToBits(v, k) == [i \in 1..k |-> (v \div Pow2(k - i)) % 2]

RECURSIVE BitsValue(_, _, _)
BitsValue(bits, k, acc) ==
    IF k > Len(bits) THEN acc ELSE BitsValue(bits, k + 1, 2 * acc + bits[k])

RECURSIVE BitsOf(_, _)
BitsOf(c, acc) == IF c = 0 THEN acc ELSE BitsOf(c \div 2, <<c % 2>> \o acc)

\* Long division, LimbBits bits at a time: k more limbs of r/n after acc,
\* and what is left over.
RECURSIVE DivBits(_, _, _, _)
DivBits(r, n, k, acc) ==
    IF k = 0 THEN [bits |-> acc, rem |-> r]
    ELSE DivBits((r * Pow2(LimbBits)) % n, n, k - 1,
                 acc \o ToBits((r * Pow2(LimbBits)) \div n, LimbBits))

\* bits + 1.
IncBits(bits) ==
    LET zeros == {i \in DOMAIN bits : bits[i] = 0}
    IN IF zeros = {} THEN [bits |-> [i \in DOMAIN bits |-> 0], carry |-> 1]
       ELSE LET z == CHOOSE z \in zeros : \A i \in zeros : i <= z
            IN [bits |-> [i \in DOMAIN bits |->
                             IF i < z THEN bits[i] ELSE IF i = z THEN 1 ELSE 0],
                carry |-> 0]

RoundToDouble(bits, exp, up) ==
    IF ~up THEN [bits |-> bits, exp |-> exp]
    ELSE LET inc == IncBits(bits)
         IN IF inc.carry = 1
            THEN [bits |-> <<1>> \o SubSeq(inc.bits, 1, Len(bits) - 1),
                  exp |-> exp + 1]
            ELSE [bits |-> inc.bits, exp |-> exp]

\* The least e with d * 2^e >= n.
RECURSIVE Shift(_, _, _)
Shift(d, n, e) == IF d >= n THEN [d |-> d, e |-> e] ELSE Shift(2 * d, n, e + 1)

\* d / n for integers 0 < d < n.
DoubleDivide(d, n) ==
    LET s == Shift(d, n, 0)
        q == DivBits(s.d - n, n, Limbs, <<1>>)
        up == 2 * q.rem > n \/ (2 * q.rem = n /\ q.bits[MantissaBits] = 1)
    IN RoundToDouble(q.bits, 0 - s.e, up)

\* The limbs after the first bit, times c, from the last limb backwards.
RECURSIVE MulBits(_, _, _, _, _)
MulBits(bits, c, k, carry, acc) ==
    IF k = 0 THEN BitsOf(bits[1] * c + carry, <<>>) \o acc
    ELSE LET first == 2 + (k - 1) * LimbBits
             t == BitsValue(SubSeq(bits, first, first + LimbBits - 1), 1, 0) * c + carry
         IN MulBits(bits, c, k - 1, t \div Pow2(LimbBits),
                    ToBits(t % Pow2(LimbBits), LimbBits) \o acc)

\* x * c for a double x and a small positive integer c.
DoubleTimes(x, c) ==
    LET p == MulBits(x.bits, c, Limbs, 0, <<>>)
        kept == SubSeq(p, 1, MantissaBits)
        dropped == SubSeq(p, MantissaBits + 1, Len(p))
        tail == {i \in 2..Len(dropped) : dropped[i] = 1}
        up == /\ Len(dropped) > 0
              /\ dropped[1] = 1
              /\ (tail # {} \/ kept[MantissaBits] = 1)
    IN RoundToDouble(kept, x.exp + (Len(p) - MantissaBits), up)

\* Math.round of a positive double below 2^31: the integer part, plus one
\* when the first bit of the fraction is set.
MathRound(x) ==
    IF x.exp < -1 THEN 0
    ELSE IF x.exp = -1 THEN 1
    ELSE BitsValue(SubSeq(x.bits, 1, x.exp + 1), 1, 0) + x.bits[x.exp + 2]

(***************************************************************************)
(* Strings are sequences of characters, so that toLowerCase, trim and join *)
(* are computed and not assumed.                                           *)
(***************************************************************************)
\* The letters toLowerCase changes, each with what it becomes.
Letters ==
    {<<"A", "a">>, <<"B", "b">>, <<"C", "c">>, <<"D", "d">>, <<"E", "e">>,
     <<"F", "f">>, <<"G", "g">>, <<"H", "h">>, <<"I", "i">>, <<"J", "j">>,
     <<"K", "k">>, <<"L", "l">>, <<"M", "m">>, <<"N", "n">>, <<"O", "o">>,
     <<"P", "p">>, <<"Q", "q">>, <<"R", "r">>, <<"S", "s">>, <<"T", "t">>,
     <<"U", "u">>, <<"V", "v">>, <<"W", "w">>, <<"X", "x">>, <<"Y", "y">>,
     <<"Z", "z">>}

toLowerCase(s) ==
    [i \in 1..Len(s) |->
        IF \E l \in Letters : l[1] = s[i]
        THEN (CHOOSE l \in Letters : l[1] = s[i])[2]
        ELSE s[i]]

WhiteSpace == {" ", "\t", "\n"}

RECURSIVE trim(_)
trim(s) ==
    IF s = <<>> THEN s
    ELSE IF s[1] \in WhiteSpace THEN trim(Tail(s))
    ELSE IF s[Len(s)] \in WhiteSpace THEN trim(SubSeq(s, 1, Len(s) - 1))
    ELSE s

RECURSIVE join(_, _)
join(parts, sep) ==
    IF parts = <<>> THEN <<>>
    ELSE IF Len(parts) = 1 THEN parts[1]
    ELSE parts[1] \o sep \o join(Tail(parts), sep)

(***************************************************************************)
(* FindingGrouper (src/deduplication/grouper.ts).  A finding is the four   *)
(* fields the grouper reads.                                               *)
(***************************************************************************)
MaxFindings == 3

\* At most one of tool and category holds the separator of the key.
FindingSet ==
    {f \in [tool : {<<"t">>, <<"t", ":", ":", "c">>},
            category : {<<"c">>, <<"c", ":", ":", "c">>},
            title : {<<"A">>, <<"a", " ">>, <<"b">>},
            severity : {<<"h", "i", "g", "h">>, <<"l", "o", "w">>}] :
        Len(f.tool) = 1 \/ Len(f.category) = 1}

generateGroupKey(finding) ==
    join(<<finding.tool, finding.category, trim(toLowerCase(finding.title)),
           finding.severity>>, <<":", ":">>)

\* Math.round((duplicateCount / findings.length) * 100), or 0 for no finding.
\* 0 / n is 0 and n / n is 1, exactly.
noiseReductionPercent(findingsLength, duplicateCount) ==
    IF findingsLength > 0
    THEN IF duplicateCount = 0 THEN 0
         ELSE IF duplicateCount = findingsLength THEN 100
         ELSE MathRound(DoubleTimes(DoubleDivide(duplicateCount, findingsLength), 100))
    ELSE 0

\* The body of the loop with every finding pushed to uniqueFindings.
groupStepKeepAll(acc, finding) ==
    LET groupKey == generateGroupKey(finding)
        at == {k \in DOMAIN acc.groups : acc.groups[k].key = groupKey}
    IN IF at # {}
       THEN LET k == CHOOSE k \in at : TRUE
            IN [groups |-> [acc.groups EXCEPT ![k].findings = Append(@, finding),
                                              ![k].count = @ + 1],
                uniqueFindings |-> Append(acc.uniqueFindings, finding)]
       ELSE [groups |-> Append(acc.groups,
                               [key |-> groupKey,
                                id |-> <<"group-">> \o groupKey,
                                title |-> finding.title,
                                category |-> finding.category,
                                severity |-> finding.severity,
                                count |-> 1,
                                findings |-> <<finding>>,
                                representativeFinding |-> finding]),
             uniqueFindings |-> Append(acc.uniqueFindings, finding)]

\* The body of the loop of groupFindings.  groups is the Map in insertion
\* order, each value with its key.
groupStep(acc, finding) ==
    LET groupKey == generateGroupKey(finding)
        at == {k \in DOMAIN acc.groups : acc.groups[k].key = groupKey}
    IN IF at # {}
       THEN LET k == CHOOSE k \in at : TRUE
            IN [acc EXCEPT !.groups[k].findings = Append(@, finding),
                           !.groups[k].count = @ + 1]
       ELSE [groups |-> Append(acc.groups,
                               [key |-> groupKey,
                                id |-> <<"group-">> \o groupKey,
                                title |-> finding.title,
                                category |-> finding.category,
                                severity |-> finding.severity,
                                count |-> 1,
                                findings |-> <<finding>>,
                                representativeFinding |-> finding]),
             uniqueFindings |-> Append(acc.uniqueFindings, finding)]

RECURSIVE groupLoop(_, _, _)
groupLoop(findings, i, acc) ==
    IF i > Len(findings) THEN acc
    ELSE groupLoop(findings, i + 1, groupStep(acc, findings[i]))

\* The two numbers of the result, from the two lengths they are computed from.
groupingCounts(findingsLength, uniqueLength) ==
    LET duplicateCount == findingsLength - uniqueLength
    IN [duplicateCount |-> duplicateCount,
        noiseReductionPercent |-> noiseReductionPercent(findingsLength, duplicateCount)]

groupFindings(findings) ==
    LET acc == groupLoop(findings, 1, [groups |-> <<>>, uniqueFindings |-> <<>>])
        counts == groupingCounts(Len(findings), Len(acc.uniqueFindings))
    IN [groups |-> acc.groups,
        uniqueFindings |-> acc.uniqueFindings,
        duplicateCount |-> counts.duplicateCount,
        noiseReductionPercent |-> counts.noiseReductionPercent]

\* harden is not running: a component is called on its own.
Idle ==
    /\ entry = "none"
    /\ argv = NoArgv
    /\ options = [dryRun |-> TRUE, apply |-> FALSE, enableRollback |-> FALSE]
    /\ pc = "idle"
    /\ Fresh
    /\ disk = [r \in Resources |-> "conf"]

GroupInit ==
    /\ Idle
    /\ arg \in UNION {[1..n -> FindingSet] : n \in 0..MaxFindings}
    /\ result = <<>>
    /\ called = FALSE

GroupFindings ==
    /\ ~called
    /\ result' = groupFindings(arg)
    /\ called' = TRUE
    /\ UNCHANGED <<arg, hardenVars>>

GroupSpec == GroupInit /\ [][GroupFindings]_vars

\* The numbers of the result for every pair of lengths groupFindings can
\* reach: no finding, or at least one unique finding among them.
MaxTotalFindings == 98

CountInit ==
    /\ Idle
    /\ arg \in {[findings |-> 0, unique |-> 0]} \cup
               {l \in [findings : 1..MaxTotalFindings, unique : 1..MaxTotalFindings] :
                   l.unique <= l.findings}
    /\ result = <<>>
    /\ called = FALSE

GroupingCounts ==
    /\ ~called
    /\ result' = groupingCounts(arg.findings, arg.unique)
    /\ called' = TRUE
    /\ UNCHANGED <<arg, hardenVars>>

CountSpec == CountInit /\ [][GroupingCounts]_vars

(***************************************************************************)
(* Claims about the grouper.                                               *)
(***************************************************************************)
\* The positions of findings whose key no earlier finding has.
FirstOccurrences(findings) ==
    {i \in DOMAIN findings :
        \A j \in 1..(i - 1) : generateGroupKey(findings[j]) # generateGroupKey(findings[i])}

\* The positions of findings with the key of findings[i].
Occurrences(findings, i) ==
    {j \in DOMAIN findings : generateGroupKey(findings[j]) = generateGroupKey(findings[i])}

\* The sub-sequence of s at the positions in S.
RECURSIVE Pick(_, _)
Pick(s, S) ==
    IF S = {} THEN <<>>
    ELSE LET i == CHOOSE i \in S : \A j \in S : i <= j
         IN <<s[i]>> \o Pick(s, S \ {i})

\* C11: uniqueFindings is the sub-sequence of the first finding of each
\* grouping key, in input order; the k-th group has the k-th of them as
\* its representative and holds, in input order, every finding of that
\* key, count being their number; a later finding of a key is in no
\* other place.
C11_FirstOccurrenceKept ==
    called =>
        LET first == FirstOccurrences(arg)
        IN /\ result.uniqueFindings = Pick(arg, first)
           /\ Len(result.groups) = Cardinality(first)
           /\ \A k \in DOMAIN result.groups :
                  LET i == CHOOSE i \in first :
                               Cardinality({j \in first : j < i}) = k - 1
                      group == result.groups[k]
                  IN /\ group.representativeFinding = arg[i]
                     /\ group.findings = Pick(arg, Occurrences(arg, i))
                     /\ group.findings[1] = arg[i]
                     /\ group.count = Len(group.findings)

\* C11, witness: three findings, the third of the key of the first and a
\* different record, the second of another key.
C11_Witness ==
    /\ called
    /\ Len(arg) = 3
    /\ arg[3] # arg[1]
    /\ Len(result.groups) = 2
    /\ result.groups[1].count = 2
    /\ result.groups[1].representativeFinding = arg[1]

SameGroup(r, a, b) ==
    \E k \in DOMAIN r.groups :
        /\ \E i \in DOMAIN r.groups[k].findings : r.groups[k].findings[i] = a
        /\ \E i \in DOMAIN r.groups[k].findings : r.groups[k].findings[i] = b

\* C13: two findings of the input are in the same group exactly when they
\* have equal tool, category and severity and equal lower-cased trimmed
\* titles.
C13_GroupPerTuple ==
    called =>
        \A i, j \in DOMAIN arg :
            SameGroup(result, arg[i], arg[j]) <=>
                /\ arg[i].tool = arg[j].tool
                /\ arg[i].category = arg[j].category
                /\ arg[i].severity = arg[j].severity
                /\ trim(toLowerCase(arg[i].title)) = trim(toLowerCase(arg[j].title))

\* num / den rounded to the nearest integer, a half upwards.
RoundHalfUp(num, den) == (2 * num + den) \div (2 * den)

\* C12: duplicateCount is the number of findings minus the number of
\* unique findings, and noiseReductionPercent is duplicateCount / total *
\* 100 rounded to the nearest integer, 0 for no finding.
C12_NoiseReduction ==
    called =>
        /\ result.duplicateCount = arg.findings - arg.unique
        /\ result.noiseReductionPercent =
               IF arg.findings = 0 THEN 0
               ELSE RoundHalfUp(100 * (arg.findings - arg.unique), arg.findings)

(***************************************************************************)
(* RiskScorer (src/scoring/riskScorer.ts).  A text is the set of phrases   *)
(* it is made of; Fragments gives the keywords of the scorer that occur in *)
(* a phrase, and LowerPhrase its lower-case form.  Scores are decimal      *)
(* fractions kept as integers, the unit being stated with each operator;   *)
(* the sums and products are exact, where the doubles of the code can be   *)
(* off by one unit in the last place (an overall of 55.5 is then 55).      *)
(***************************************************************************)
LowerPhrase(p) ==
    CASE p = "RCE" -> "rce"
      [] p = "Exposed credentials" -> "exposed credentials"
      [] p = "Server tokens exposed" -> "server tokens exposed"
      [] p = "No USER directive specified" -> "no user directive specified"
      [] p = "Privileged container detected" -> "privileged container detected"
      [] p = "Container may run as root" -> "container may run as root"
      [] p = "Helm chart enables privileged mode" -> "helm chart enables privileged mode"
      [] p = "Root" -> "root"
      [] p = "Tag" -> "tag"
      [] p = "Nginx configuration issue: Server tokens exposed" ->
             "nginx configuration issue: server tokens exposed"
      [] p = "Container will run as root by default" ->
             "container will run as root by default"
      [] p = "Container is running with privileged flag" ->
             "container is running with privileged flag"
      [] p = "No runAsNonRoot enforced" -> "no runasnonroot enforced"
      [] p = "Trivy config misconfiguration" -> "trivy config misconfiguration"
      [] p = "No USER instruction found" -> "no user instruction found"
      [] p = "app: runAsNonRoot not set" -> "app: runasnonroot not set"
      [] p = "Trivy finding" -> "trivy finding"
      [] OTHER -> p

Fragments(p) ==
    CASE p = "default credentials" -> {"default credential", "credential", "default"}
      [] p = "exposed credentials" -> {"credential"}
      [] p = "Exposed credentials" -> {"credential"}
      [] p = "cluster-admin" -> {"cluster-admin", "cluster", "admin"}
      [] p = "0.0.0.0:8080" -> {"0.0.0.0"}
      [] p = "default password admin" -> {"default password", "default", "admin"}
      [] p = "server tokens exposed" -> {"token"}
      [] p = "no user directive specified" -> {"user"}
      [] p = "privileged container detected" -> {"privileged"}
      [] p = "container may run as root" -> {"root"}
      [] p = "helm chart enables privileged mode" -> {"privileged"}
      [] p = "root " -> {"root"}
      [] p = "dockerfile" -> {"docker"}
      [] p = "kubernetes-pod-security" -> {"pod"}
      [] p = "nginx configuration issue: server tokens exposed" -> {"token"}
      [] p = "container will run as root by default" -> {"default", "root"}
      [] p = "container is running with privileged flag" -> {"privileged"}
      [] p = "no runasnonroot enforced" -> {"rce", "root"}
      [] p = "privileged is set to true in values" -> {"privileged"}
      [] p = "server_tokens on" -> {"token"}
      [] p = "no user instruction found" -> {"user"}
      [] p = "app: privileged: true" -> {"privileged: true", "privileged"}
      [] p = "privileged: true" -> {"privileged: true", "privileged"}
      [] p = "app: runasnonroot not set" -> {"root"}
      [] OTHER -> {p}

textLower(text) == {LowerPhrase(p) : p \in text}

includes(text, keyword) == \E p \in text : keyword \in Fragments(p)

\* confidence is in hundredths.
ScoredFindings ==
    [severity : {"critical", "high", "medium", "low", "info"},
     title : {{"Exposed credentials"}},
     description : SUBSET {"RCE", "default credentials", "data breach", "pivot",
                           "chained", "cluster-admin", "exploit", "authenticated"},
     evidence : SUBSET {"0.0.0.0:8080", "default password admin",
                        "remote code execution"},
     category : {{"authentication"}, {"kubernetes-rbac"}},
     confidence : {0, 50, 100}]

\* Weights in tenths.
ATTACK_COMPLEXITY == [LOW |-> 10, MEDIUM |-> 7, HIGH |-> 4]
PRIVILEGES_REQUIRED == [NONE |-> 10, LOW |-> 6, HIGH |-> 3]
USER_INTERACTION == [NONE |-> 10, REQUIRED |-> 6]
SCOPE == [Changed |-> 12, Unchanged |-> 10]

Weight(condition, weight) == IF condition THEN weight ELSE 0

Min(a, b) == IF a <= b THEN a ELSE b
Max(a, b) == IF a >= b THEN a ELSE b

\* Weights in tenths.
calculateCVSSModifiers(finding) ==
    LET evidence == textLower(finding.evidence)
        description == textLower(finding.description)
    IN [attackComplexity |->
            IF includes(description, "chained") \/ includes(description, "multiple steps")
            THEN ATTACK_COMPLEXITY.HIGH
            ELSE IF includes(description, "authenticated") \/ includes(description, "requires")
            THEN ATTACK_COMPLEXITY.MEDIUM
            ELSE ATTACK_COMPLEXITY.LOW,
        privilegesRequired |->
            IF \/ includes(description, "admin")
               \/ includes(description, "root")
               \/ includes(evidence, "cluster-admin")
            THEN PRIVILEGES_REQUIRED.HIGH
            ELSE IF includes(description, "authenticated") \/ includes(description, "user")
            THEN PRIVILEGES_REQUIRED.LOW
            ELSE PRIVILEGES_REQUIRED.NONE,
        userInteraction |->
            IF \/ includes(description, "click")
               \/ includes(description, "user action")
               \/ includes(description, "manual")
            THEN USER_INTERACTION.REQUIRED
            ELSE USER_INTERACTION.NONE,
        scope |->
            IF \/ includes(description, "cluster")
               \/ includes(description, "lateral")
               \/ includes(description, "pivot")
               \/ includes(description, "escape")
            THEN SCOPE.Changed
            ELSE SCOPE.Unchanged]

\* In tenths.
calculateTemporalScore(finding) ==
    LET description == textLower(finding.description)
        category == textLower(finding.category)
        score ==
            50
            + (IF includes(description, "poc available") \/ includes(description, "exploit")
               THEN 20
               ELSE IF includes(description, "theoretical") \/ includes(description, "no known")
               THEN -10
               ELSE 0)
            + Weight(includes(category, "docker") /\ includes(description, "latest tag"), 10)
            + Weight(includes(description, "no patch") \/ includes(description, "cannot fix"), 15)
            + Weight(finding.confidence >= 90, 5)
    IN Max(0, Min(100, score))

\* In hundredths.
severityMultiplier(severity) ==
    CASE severity = "critical" -> 190
      [] severity = "high" -> 140
      [] severity = "medium" -> 85
      [] severity = "low" -> 55
      [] severity = "info" -> 35
      [] OTHER -> 100

\* In ten-thousandths: the sum of the weights is in tenths, the severity
\* multiplier in hundredths and the category multiplier in tenths.
calculateExploitLikelihood(finding) ==
    LET evidence == textLower(finding.evidence)
        description == textLower(finding.description)
        title == textLower(finding.title)
        score ==
            (IF includes(evidence, "0.0.0.0") \/ includes(evidence, "internet-facing")
             THEN 45
             ELSE IF includes(evidence, "publicly accessible") \/ includes(evidence, "external")
             THEN 38
             ELSE IF includes(evidence, "127.0.0.1") \/ includes(evidence, "localhost")
             THEN 5
             ELSE 0)
            + Weight(\/ includes(description, "no authentication")
                     \/ includes(description, "unauthenticated")
                     \/ includes(evidence, "anonymous")
                     \/ includes(title, "unauthenticated"), 42)
            + Weight(\/ includes(evidence, "default password")
                     \/ includes(description, "default credential")
                     \/ includes(evidence, "admin:admin")
                     \/ includes(evidence, "root:root"), 48)
            + Weight(\/ includes(description, "privileged")
                     \/ includes(evidence, "privileged: true")
                     \/ includes(evidence, "--privileged"), 35)
            + Weight(\/ includes(description, "hostnetwork")
                     \/ includes(evidence, "hostNetwork: true")
                     \/ includes(description, "hostpath"), 32)
            + Weight(includes(description, "hostipc") \/ includes(description, "hostpid"), 30)
            + Weight(/\ includes(description, "tls") \/ includes(description, "ssl")
                     /\ \/ includes(evidence, "false")
                        \/ includes(evidence, "disabled")
                        \/ includes(description, "not enabled"), 38)
            + Weight(includes(description, "weak cipher") \/ includes(description, "sslv3"), 35)
            + Weight(\/ includes(description, "root")
                     \/ includes(evidence, "user: root")
                     \/ includes(evidence, "uid: 0")
                     \/ includes(evidence, "runAsNonRoot: false"), 28)
            + Weight(includes(description, "sudo") \/ includes(description, "setuid"), 30)
            + Weight(includes(description, "rce")
                     \/ includes(description, "remote code execution"), 55)
            + Weight(includes(description, "sql injection") \/ includes(description, "sqli"), 50)
            + Weight(includes(description, "command injection")
                     \/ includes(description, "shell injection"), 52)
            + Weight(includes(description, "path traversal")
                     \/ includes(description, "directory traversal"), 40)
            + Weight(includes(description, "xxe")
                     \/ includes(description, "xml external entity"), 42)
            + Weight(includes(description, "ssrf")
                     \/ includes(description, "server-side request forgery"), 45)
            + Weight(includes(description, "secrets") \/ includes(evidence, "secret"), 35)
            + Weight(includes(description, "cluster-admin")
                     \/ includes(evidence, "cluster-admin"), 40)
            + Weight(includes(description, "latest tag") \/ includes(evidence, ":latest"), 15)
        categoryMultiplier ==
            IF includes(finding.category, "kubernetes-rbac") THEN 13
            ELSE IF includes(finding.category, "docker-security") THEN 12
            ELSE IF includes(finding.category, "nginx-security") THEN 11
            ELSE 10
        finalScore == score * severityMultiplier(finding.severity) * categoryMultiplier
    IN Min(100000, Max(0, finalScore))

\* The last line of calculateBusinessImpact with the range 0-5.
clampImpactToFive(finalScore) == Max(0, Min(50, finalScore))

\* The last line of calculateBusinessImpact, in tenths.
clampImpact(finalScore) == Max(0, Min(100, finalScore))

\* In tenths.
calculateBusinessImpact(finding) ==
    LET description == textLower(finding.description)
        score ==
            Weight(\/ includes(description, "secret")
                   \/ includes(description, "credential")
                   \/ includes(description, "api key")
                   \/ includes(description, "token"), 50)
            + Weight(\/ includes(description, "data breach")
                     \/ includes(description, "data exfiltration")
                     \/ includes(description, "data leak"), 50)
            + Weight(includes(description, "ransomware") \/ includes(description, "crypto"), 50)
            + Weight(\/ includes(description, "availability")
                     \/ includes(description, "downtime")
                     \/ includes(description, "denial of service"), 40)
            + Weight(\/ includes(description, "compliance")
                     \/ includes(description, "gdpr")
                     \/ includes(description, "hipaa")
                     \/ includes(description, "pci-dss"), 40)
            + Weight(\/ includes(description, "lateral movement")
                     \/ includes(description, "pivot")
                     \/ includes(description, "cluster-admin"), 45)
            + Weight(includes(description, "etcd") \/ includes(description, "control plane"), 50)
        severityBonus ==
            CASE finding.severity = "critical" -> 20
              [] finding.severity = "high" -> 10
              [] finding.severity = "medium" -> 0
              [] finding.severity = "low" -> -10
              [] finding.severity = "info" -> -20
              [] OTHER -> 0
    IN clampImpact(score + severityBonus)

\* Math.min(100, Math.max(0, overall)) left out.
clampOverallMissing(overall) == overall

clampOverall(overall) == Min(100, Max(0, overall))

\* overall is an integer; exploitLikelihood, businessImpact and confidence
\* are in tenths (each is Math.round(x * 10) / 10).  adjustedExploit is in
\* millionths, adjustedImpact and confidence in hundredths, and
\* compositeScore * 100 in ten-millionths.
scoreFind(finding) ==
    LET exploitLikelihood == calculateExploitLikelihood(finding)
        businessImpact == calculateBusinessImpact(finding)
        confidence == finding.confidence * 5
        cvssModifiers == calculateCVSSModifiers(finding)
        temporalScore == calculateTemporalScore(finding)
        adjustedExploit ==
            exploitLikelihood * cvssModifiers.attackComplexity * cvssModifiers.privilegesRequired
        adjustedImpact == businessImpact * cvssModifiers.scope
        compositeScore ==
            adjustedExploit * 45 + adjustedImpact * 400000 + confidence * 100000
            + temporalScore * 500000
        overall == (compositeScore + 5000000) \div 10000000
    IN [overall |-> clampOverall(overall),
        exploitLikelihood |-> (adjustedExploit + 50000) \div 100000,
        businessImpact |-> (adjustedImpact + 5) \div 10,
        confidence |-> (confidence + 5) \div 10]

ScoreInit ==
    /\ Idle
    /\ arg \in ScoredFindings
    /\ result = <<>>
    /\ called = FALSE

ScoreFind ==
    /\ ~called
    /\ result' = scoreFind(arg)
    /\ called' = TRUE
    /\ UNCHANGED <<arg, hardenVars>>

ScoreSpec == ScoreInit /\ [][ScoreFind]_vars

(***************************************************************************)
(* Claims about the scorer.                                                *)
(***************************************************************************)
\* C14: for every finding with confidence in [0,1], whatever its severity
\* and texts, overall is an integer from 0 to 100.
C14_OverallInRange ==
    called => result.overall \in 0..100

\* C14, witness: a finding whose composite is above 100 before the clamp.
C14_Witness ==
    /\ called
    /\ result.overall = 100
    /\ result.businessImpact > 100

\* C15: exploitLikelihood is in [0,10], businessImpact in [0,10] and
\* confidence in [0,5] (here in tenths), the CVSS modifiers applied.
C15_SubScoresInRange ==
    called =>
        /\ result.exploitLikelihood \in 0..100
        /\ result.businessImpact \in 0..100
        /\ result.confidence \in 0..50

DefaultCredentialsIndicator(evidence) ==
    \/ includes(evidence, "default password")
    \/ includes(evidence, "admin:admin")
    \/ includes(evidence, "root:root")

RceLanguage(text) ==
    includes(text, "rce") \/ includes(text, "remote code execution")

\* The case of C16: a critical finding whose evidence has the bind
\* address, a default-credentials indicator and RCE language.
CriticalExposed(finding) ==
    /\ finding.severity = "critical"
    /\ includes(textLower(finding.evidence), "0.0.0.0")
    /\ DefaultCredentialsIndicator(textLower(finding.evidence))
    /\ RceLanguage(textLower(finding.evidence))

MaxPlan == 3

\* Findings of every severity, with and without RCE language.
PlanFindings ==
    {f \in ScoredFindings :
        /\ f.description \subseteq {"RCE"}
        /\ f.evidence = {}
        /\ f.category = {"authentication"}
        /\ f.confidence = 0}

\* The comparator with the operands exchanged.
compareAscending(a, b) == a.riskScore.overall - b.riskScore.overall

\* (a, b) => b.riskScore.overall - a.riskScore.overall
compare(a, b) == b.riskScore.overall - a.riskScore.overall

\* Array.prototype.sort is stable: x goes behind every element that the
\* comparator does not put behind it.
RECURSIVE sortInsert(_, _)
sortInsert(sorted, x) ==
    IF sorted = <<>> THEN <<x>>
    ELSE IF compare(Head(sorted), x) <= 0
         THEN <<Head(sorted)>> \o sortInsert(Tail(sorted), x)
         ELSE <<x>> \o sorted

RECURSIVE sort(_, _, _)
sort(list, i, sorted) ==
    IF i > Len(list) THEN sorted
    ELSE sort(list, i + 1, sortInsert(sorted, list[i]))

scoreFindings(findings) ==
    LET prioritized ==
            [i \in DOMAIN findings |->
                [finding |-> findings[i],
                 riskScore |-> scoreFind(findings[i]),
                 status |-> "pending"]]
    IN sort(prioritized, 1, <<>>)

PlanInit ==
    /\ Idle
    /\ arg \in UNION {[1..n -> PlanFindings] : n \in 0..MaxPlan}
    /\ result = <<>>
    /\ called = FALSE

ScoreFindings ==
    /\ ~called
    /\ result' = scoreFindings(arg)
    /\ called' = TRUE
    /\ UNCHANGED <<arg, hardenVars>>

PlanSpec == PlanInit /\ [][ScoreFindings]_vars

(***************************************************************************)
(* Claims about the plan.                                                  *)
(***************************************************************************)
\* The bijections of 1..n.
Bijections(n) ==
    {p \in [1..n -> 1..n] : \A i, j \in 1..n : p[i] = p[j] => i = j}

\* C17: the plan is a permutation of the findings it is made from, each
\* with its score, in descending order of riskScore.overall, findings of
\* equal overall in the order they had.
C17_PlanSortedStable ==
    called =>
        /\ Len(result) = Len(arg)
        /\ \A k \in 1..(Len(result) - 1) :
               result[k].riskScore.overall >= result[k + 1].riskScore.overall
        /\ \E p \in Bijections(Len(arg)) :
               /\ \A k \in DOMAIN result :
                      /\ result[k].finding = arg[p[k]]
                      /\ result[k].riskScore = scoreFind(arg[p[k]])
               /\ \A k, l \in DOMAIN result :
                      (k < l /\ result[k].riskScore.overall = result[l].riskScore.overall)
                          => p[k] < p[l]

\* C17, witness: three findings, the first below the other two, which
\* are different findings of equal overall and keep their order.
C17_Witness ==
    /\ called
    /\ Len(arg) = 3
    /\ scoreFind(arg[1]).overall < scoreFind(arg[2]).overall
    /\ scoreFind(arg[2]).overall = scoreFind(arg[3]).overall
    /\ arg[2] # arg[3]
    /\ result[1].finding = arg[2]
    /\ result[2].finding = arg[3]
    /\ result[3].finding = arg[1]

(***************************************************************************)
(* PatchEngine (src/patching/patchEngine.ts).  A file content is a         *)
(* sequence of tokens: "\n", and the directives the templates look for,    *)
(* each with its indentation.  A regular expression or includes() of a     *)
(* template is the set of tokens it matches.                               *)
(***************************************************************************)
NL == "\n"

Has(content, tokens) == \E i \in DOMAIN content : content[i] \in tokens

\* content.replace(regex, ...) without the g flag: map gives, for every
\* token the regex matches, what the token becomes.
ReplaceFirst(content, map) ==
    LET at == {i \in DOMAIN content : content[i] \in DOMAIN map}
    IN IF at = {} THEN content
       ELSE LET i == CHOOSE i \in at : \A j \in at : i <= j
            IN SubSeq(content, 1, i - 1) \o map[content[i]]
               \o SubSeq(content, i + 1, Len(content))

\* content.replace(regex, ...) with the g flag.
RECURSIVE ReplaceAll(_, _)
ReplaceAll(content, map) ==
    IF content = <<>> THEN <<>>
    ELSE (IF Head(content) \in DOMAIN map THEN map[Head(content)] ELSE <<Head(content)>>)
         \o ReplaceAll(Tail(content), map)

\* The first place where a token of heads is followed by a token of nexts,
\* or 0.
FirstPair(content, heads, nexts) ==
    LET at == {i \in 1..(Len(content) - 1) :
                  content[i] \in heads /\ content[i + 1] \in nexts}
    IN IF at = {} THEN 0 ELSE CHOOSE i \in at : \A j \in at : i <= j

\* The end of the run of "\n" that starts at i.
RECURSIVE RunEnd(_, _)
RunEnd(content, i) ==
    IF i < Len(content) /\ content[i + 1] = NL THEN RunEnd(content, i + 1) ELSE i

\* /securityContext:\s*\n/ replaced by securityContext:\n<lines>\n: the
\* blank lines behind the key go.
AfterSecurityContext(content, lines) ==
    LET i == FirstPair(content, {"    securityContext:"}, {NL})
    IN IF i = 0 THEN content
       ELSE SubSeq(content, 1, i) \o <<NL>> \o lines \o <<NL>>
            \o SubSeq(content, RunEnd(content, i + 1) + 1, Len(content))

\* The lines of the contents that the regular expressions of the templates
\* match: /(\s+)image:\s*\S+/, /(\s{2}listen\s+\d+;)/, /listen\s+443/,
\* /ssl_protocols\s+[^;]+;/i and /\s*-\s*name:\s*\S+/.
Lines ==
    [image |-> {"    image: nginx:latest", "    image: myapp:latest",
                "    image: nginx:1.25-alpine", "    image: myapp:1.0.0"},
     listen |-> {"  listen 80;", "  listen 443;"},
     listen443 |-> {"  listen 443;", "  listen 443 ssl;"},
     sslProtocols |-> {"ssl_protocols TLSv1 TLSv1.1;", "ssl_protocols TLSv1.2 TLSv1.3;",
                       "    ssl_protocols TLSv1.2 TLSv1.3;"},
     containerName |-> {"    - name: app"}]

\* /(\s+)image:\s*\S+(\n(?:\1  .+\n)*)/g with the line read_only put
\* behind the first line end of each match: the one in front of the image
\* line when there is one, for the white space in front is in the match.
RECURSIVE AddReadOnly(_, _)
AddReadOnly(content, i) ==
    IF i > Len(content) THEN <<>>
    ELSE (IF content[i] \in Lines.image /\ i < Len(content) /\ content[i + 1] = NL
          THEN IF i > 1 /\ content[i - 1] = NL
               THEN <<"    read_only: true", NL, content[i]>>
               ELSE <<content[i], NL, "    read_only: true">>
          ELSE <<content[i]>>)
         \o AddReadOnly(content, i + 1)

HstsHeader ==
    "add_header Strict-Transport-Security \"max-age=31536000; includeSubDomains\" always;"
\* The templates in the order of PatchEngine.templates.
templates ==
    << [id |-> "nginx-disable-server-tokens", type |-> "nginx"],
       [id |-> "nginx-redirect-http-to-https", type |-> "nginx"],
       [id |-> "nginx-add-hsts", type |-> "nginx"],
       [id |-> "nginx-set-tls-min-version", type |-> "nginx"],
       [id |-> "docker-remove-latest-tag", type |-> "docker"],
       [id |-> "docker-add-user", type |-> "docker"],
       [id |-> "docker-compose-remove-latest-tag", type |-> "docker"],
       [id |-> "docker-compose-disable-privileged", type |-> "docker"],
       [id |-> "docker-compose-change-root-user", type |-> "docker"],
       [id |-> "docker-compose-add-read-only-fs", type |-> "docker"],
       [id |-> "helm-remove-latest-tag", type |-> "custom"],
       [id |-> "helm-enable-run-as-non-root", type |-> "custom"],
       [id |-> "helm-disable-privileged", type |-> "custom"],
       [id |-> "k8s-add-security-context", type |-> "kubernetes"],
       [id |-> "k8s-add-resource-limits", type |-> "kubernetes"],
       [id |-> "k8s-disable-privilege-escalation", type |-> "kubernetes"],
       [id |-> "k8s-drop-all-capabilities", type |-> "kubernetes"],
       [id |-> "k8s-replace-cluster-admin", type |-> "kubernetes"] >>

findingPattern(template, f) ==
    CASE template.id = "nginx-disable-server-tokens" -> f.id = "nginx-server-tokens-exposed"
      [] template.id = "nginx-redirect-http-to-https" ->
             f.id = "nginx-http-traffic-not-redirected-to-https"
      [] template.id = "nginx-add-hsts" -> f.id = "nginx-hsts-header-missing"
      [] template.id = "nginx-set-tls-min-version" ->
             f.id = "nginx-weak-ssl/tls-protocol-enabled"
      [] template.id = "docker-remove-latest-tag" -> f.id = "docker-using-latest-tag"
      [] template.id = "docker-add-user" -> f.id = "docker-missing-user"
      [] template.id = "docker-compose-remove-latest-tag" ->
             f.id = "docker-compose-using-latest-tag"
      [] template.id = "docker-compose-disable-privileged" -> f.id = "docker-compose-privileged"
      [] template.id = "docker-compose-change-root-user" -> f.id = "docker-compose-root-user"
      [] template.id = "docker-compose-add-read-only-fs" -> f.id = "docker-compose-read-only-fs"
      [] template.id = "helm-remove-latest-tag" -> f.id = "helm-image-using-latest-tag"
      [] template.id = "helm-enable-run-as-non-root" -> f.id = "helm-run-as-non-root-false"
      [] template.id = "helm-disable-privileged" -> f.id = "helm-privileged-true"
      [] template.id = "k8s-add-security-context" ->
             \/ f.id = "k8s-container-may-run-as-root"
             \/ f.id = "k8s-privileged-container"
             \/ f.id = "k8s-root-container"
      [] template.id = "k8s-add-resource-limits" ->
             \/ f.id = "k8s-missing-resource-limits"
             \/ f.id = "k8s-no-resource-limits"
             \/ f.category = <<"kubernetes-resource-mgmt">>
      [] template.id = "k8s-disable-privilege-escalation" ->
             f.id = "k8s-allow-privilege-escalation"
      [] template.id = "k8s-drop-all-capabilities" -> f.id = "k8s-capabilities-not-dropped"
      [] template.id = "k8s-replace-cluster-admin" -> f.id = "k8s-cluster-admin-binding"

\* What generatePatch of the template makes of the content (after); a
\* template that returns null early leaves the content as it is.
transform(template, content) ==
    CASE template.id = "nginx-disable-server-tokens" ->
             IF Has(content, {"server_tokens on;", "server_tokens on"})
             THEN ReplaceFirst(content, [t \in {"server_tokens on;"} |-> <<"server_tokens off;">>])
             ELSE IF ~Has(content, {"server_tokens off;", "    server_tokens off;"})
             THEN ReplaceFirst(content,
                               [t \in Lines.listen |-> <<t, NL, "    server_tokens off;">>])
             ELSE content
      [] template.id = "nginx-redirect-http-to-https" ->
             IF /\ Has(content, {"  listen 80;"})
                /\ ~Has(content, {"    return 301 https://$host$request_uri;"})
             THEN ReplaceFirst(content,
                               [t \in {"  listen 80;"} |->
                                   <<t, NL, "    return 301 https://$host$request_uri;">>])
             ELSE content
      [] template.id = "nginx-add-hsts" ->
             IF ~(Has(content, Lines.listen443) \/ Has(content, Lines.sslProtocols)) THEN content
             ELSE IF ~Has(content, {"    " \o HstsHeader, "    " \o HstsHeader \o ";",
                                    "    " \o HstsHeader \o " ssl;"})
             THEN ReplaceFirst(content,
                      [t \in Lines.listen443 |->
                          <<"  listen 443;", NL,
                            "    # HSTS header - enforces HTTPS for 1 year", NL,
                            "    " \o HstsHeader
                                \o (IF t = "  listen 443;" THEN ";" ELSE " ssl;")>>])
             ELSE content
      [] template.id = "nginx-set-tls-min-version" ->
             IF Has(content, Lines.sslProtocols)
             THEN ReplaceFirst(content,
                               [t \in Lines.sslProtocols |->
                                   IF t = "    ssl_protocols TLSv1.2 TLSv1.3;" THEN <<t>>
                                   ELSE <<"ssl_protocols TLSv1.2 TLSv1.3;">>])
             ELSE IF Has(content, Lines.listen443)
             THEN ReplaceFirst(content,
                               [t \in Lines.listen443 |->
                                   <<t, NL, "    ssl_protocols TLSv1.2 TLSv1.3;">>])
             ELSE content
      [] template.id = "docker-remove-latest-tag" ->
             ReplaceAll(content,
                        [t \in {"FROM node:latest", "FROM myapp:latest"} |->
                            IF t = "FROM node:latest"
                            THEN <<"FROM node:20.11.0-alpine">>
                            ELSE <<"FROM myapp:1.0.0">>])
      [] template.id = "docker-add-user" ->
             IF ~Has(content, {"USER appuser", "USER root"})
             THEN content \o <<NL, NL, "# Security: run as non-root user", NL,
                                "RUN useradd -m -u 1000 appuser", NL, "USER appuser", NL>>
             ELSE content
      [] template.id = "docker-compose-remove-latest-tag" ->
             ReplaceAll(content,
                        [t \in {"    image: nginx:latest", "    image: myapp:latest"} |->
                            IF t = "    image: nginx:latest"
                            THEN <<"    image: nginx:1.25-alpine">>
                            ELSE <<"    image: myapp:1.0.0">>])
      [] template.id = "docker-compose-disable-privileged" ->
             ReplaceAll(content, [t \in {"    privileged: true"} |-> <<"    privileged: false">>])
      [] template.id = "docker-compose-change-root-user" ->
             ReplaceAll(content, [t \in {"    user: root"} |-> <<"    user: \"1000:1000\"">>])
      [] template.id = "docker-compose-add-read-only-fs" ->
             AddReadOnly(content, 1)
      [] template.id = "helm-remove-latest-tag" ->
             ReplaceAll(content,
                        [t \in {"  tag: latest"} |->
                            <<"  tag: \"1.0.0\"  # Changed from latest to stable version">>])
      [] template.id = "helm-enable-run-as-non-root" ->
             ReplaceAll(content, [t \in {"  runAsNonRoot: false"} |-> <<"  runAsNonRoot: true">>])
      [] template.id = "helm-disable-privileged" ->
             ReplaceAll(content, [t \in {"    privileged: true"} |-> <<"    privileged: false">>])
      [] template.id = "k8s-add-security-context" ->
             IF Has(content, {"    containers:"}) /\ ~Has(content, {"    securityContext:"})
             THEN ReplaceFirst(content,
                      [t \in {"    containers:"} |->
                          <<"    securityContext:", NL, "      runAsNonRoot: true", NL,
                            "      runAsUser: 1000", NL,
                            "      allowPrivilegeEscalation: false", NL,
                            "      capabilities:", NL, "        drop:", NL,
                            "          - ALL", NL, "    containers:">>])
             ELSE content
      [] template.id = "k8s-add-resource-limits" ->
             IF Has(content, {"    containers:"}) /\ ~Has(content, {"        resources:"})
             THEN LET at == {i \in 1..(Len(content) - 2) :
                                /\ content[i] = "    containers:"
                                /\ content[i + 1] = NL
                                /\ RunEnd(content, i + 1) < Len(content)
                                /\ content[RunEnd(content, i + 1) + 1] \in Lines.containerName}
                  IN IF at = {} THEN content
                     ELSE LET i == CHOOSE i \in at : \A j \in at : i <= j
                              n == RunEnd(content, i + 1) + 1
                          IN SubSeq(content, 1, n)
                             \o <<NL, "        resources:", NL, "          requests:", NL,
                                  "            memory: \"128Mi\"", NL,
                                  "            cpu: \"100m\"", NL, "          limits:", NL,
                                  "            memory: \"256Mi\"", NL,
                                  "            cpu: \"500m\"">>
                             \o SubSeq(content, n + 1, Len(content))
             ELSE content
      [] template.id = "k8s-disable-privilege-escalation" ->
             IF Has(content, {"    securityContext:"})
             THEN AfterSecurityContext(content, <<"      allowPrivilegeEscalation: false">>)
             ELSE content
      [] template.id = "k8s-drop-all-capabilities" ->
             IF Has(content, {"    securityContext:"})
             THEN AfterSecurityContext(content,
                      <<"      capabilities:", NL, "        drop:", NL, "          - ALL">>)
             ELSE content
      [] template.id = "k8s-replace-cluster-admin" ->
             ReplaceAll(content, [t \in {"  name: cluster-admin"} |-> <<"  name: view">>])

\* before.split('\n'): the lines, a text without "\n" being one line.
RECURSIVE split(_, _, _)
split(text, line, lines) ==
    IF text = <<>> THEN Append(lines, line)
    ELSE IF Head(text) = NL THEN split(Tail(text), <<>>, Append(lines, line))
    ELSE split(Tail(text), Append(line, Head(text)), lines)

\* The loop of generateDiff from line i on; a missing line and an empty
\* line are both ''.
RECURSIVE diffLines(_, _, _)
diffLines(beforeLines, afterLines, i) ==
    IF i > Max(Len(beforeLines), Len(afterLines)) THEN <<>>
    ELSE LET beforeLine == IF i <= Len(beforeLines) THEN beforeLines[i] ELSE <<>>
             afterLine == IF i <= Len(afterLines) THEN afterLines[i] ELSE <<>>
         IN (IF beforeLine # afterLine
             THEN (IF beforeLine # <<>> THEN <<(<<"- ">> \o beforeLine)>> ELSE <<>>)
                  \o (IF afterLine # <<>> THEN <<(<<"+ ">> \o afterLine)>> ELSE <<>>)
             ELSE <<(<<"  ">> \o beforeLine)>>)
            \o diffLines(beforeLines, afterLines, i + 1)

generateDiff(before, after) ==
    join(diffLines(split(before, <<>>, <<>>), split(after, <<>>, <<>>), 1), <<NL>>)

\* The end of every generatePatch without the test before === after.
makePatchAlways(template, finding, before, after) ==
    << [id |-> "patch-" \o finding.id,
        findingId |-> finding.id,
        resource |-> finding.resource,
        type |-> template.type,
        before |-> before,
        after |-> after,
        diff |-> generateDiff(before, after),
        applied |-> FALSE] >>

\* The end of every generatePatch: null (no patch) or the patch.
makePatch(template, finding, before, after) ==
    IF before = after THEN <<>>
    ELSE << [id |-> "patch-" \o finding.id,
             findingId |-> finding.id,
             resource |-> finding.resource,
             type |-> template.type,
             before |-> before,
             after |-> after,
             diff |-> generateDiff(before, after),
             applied |-> FALSE] >>

generatePatch(template, finding, content) ==
    makePatch(template, finding, content, transform(template, content))

\* this.templates.find((t) => t.findingPattern(finding)): its place, or 0.
findTemplate(finding) ==
    LET matching == {k \in DOMAIN templates : findingPattern(templates[k], finding)}
    IN IF matching = {} THEN 0 ELSE CHOOSE k \in matching : \A l \in matching : k <= l

\* The body of the loop of generatePatches dropping what was collected
\* when a resource cannot be read.
patchStepAbandon(acc, finding, file) ==
    LET k == findTemplate(finding)
    IN IF k = 0 THEN acc
       ELSE IF ~file.readable THEN <<>>
       ELSE acc \o generatePatch(templates[k], finding, file.content)

\* The body of the loop of generatePatches; file is what fs.readFile of
\* the resource gives, an error being caught.
patchStep(acc, finding, file) ==
    LET k == findTemplate(finding)
    IN IF k = 0 THEN acc
       ELSE IF ~file.readable THEN acc
       ELSE acc \o generatePatch(templates[k], finding, file.content)

RECURSIVE patchLoop(_, _, _, _)
patchLoop(findings, files, i, acc) ==
    IF i > Len(findings) THEN acc
    ELSE patchLoop(findings, files, i + 1,
                   patchStep(acc, findings[i], files[findings[i].resource]))

generatePatches(findings, files) == patchLoop(findings, files, 1, <<>>)

Unreadable == [readable |-> FALSE, content |-> <<>>]

Readable(content) == [readable |-> TRUE, content |-> content]

\* Files for every template: with the directive it changes, with the
\* directive as it should be, and without it.
TemplateContents ==
    { <<"server {", NL, "  listen 80;", NL, "server_tokens on;", NL, "}", NL>>,
      <<"server {", NL, "  listen 443 ssl;", NL, "ssl_protocols TLSv1 TLSv1.1;", NL,
        "server_tokens off;", NL, "}", NL>>,
      <<"server {", NL, "  listen 443;", NL, "}">>,
      <<"server_tokens on", NL>>,
      <<"FROM node:latest", NL, "CMD run", NL>>,
      <<"FROM myapp:latest", NL, "USER root", NL>>,
      <<"services:", NL, "  web:", NL, "    image: nginx:latest", NL,
        "    privileged: true", NL, "    user: root", NL>>,
      <<"    image: myapp:1.0.0", NL>>,
      <<"image:", NL, "  tag: latest", NL, "  runAsNonRoot: false", NL,
        "    privileged: true", NL>>,
      <<"spec:", NL, "    containers:", NL, "    - name: app", NL>>,
      <<"spec:", NL, "    securityContext:", NL, NL, "    containers:", NL,
        "    - name: app", NL, "        resources:", NL>>,
      <<"    securityContext:">>,
      <<"roleRef:", NL, "  name: cluster-admin", NL>>,
      <<>>,
      <<NL>> }

\* The findings have the ids the templates look for, and one they do not.
TemplateInit ==
    /\ Idle
    /\ arg \in
           [finding :
                [id : {"nginx-server-tokens-exposed",
                       "nginx-http-traffic-not-redirected-to-https",
                       "nginx-hsts-header-missing", "nginx-weak-ssl/tls-protocol-enabled",
                       "docker-using-latest-tag", "docker-missing-user",
                       "docker-compose-using-latest-tag", "docker-compose-privileged",
                       "docker-compose-root-user", "docker-compose-read-only-fs",
                       "helm-image-using-latest-tag", "helm-run-as-non-root-false",
                       "helm-privileged-true", "k8s-container-may-run-as-root",
                       "k8s-privileged-container", "k8s-root-container",
                       "k8s-missing-resource-limits", "k8s-no-resource-limits",
                       "k8s-allow-privilege-escalation", "k8s-capabilities-not-dropped",
                       "k8s-cluster-admin-binding", "docker-running-as-root-user"},
                 category : {<<"dockerfile">>, <<"kubernetes-resource-mgmt">>},
                 resource : {"r1"}],
            file : {Readable(c) : c \in TemplateContents} \cup {Unreadable}]
    /\ result = <<>>
    /\ called = FALSE

\* generatePatches on one finding.
GeneratePatch ==
    /\ ~called
    /\ result' = generatePatches(<<arg.finding>>, [r \in {"r1"} |-> arg.file])
    /\ called' = TRUE
    /\ UNCHANGED <<arg, hardenVars>>

TemplateSpec == TemplateInit /\ [][GeneratePatch]_vars

(***************************************************************************)
(* Claims about the patches.                                               *)
(***************************************************************************)
\* C19: every patch generatePatches returns has after different from
\* before, and its diff has a line that starts with '+' or with '-'.
C19_PatchChangesSomething ==
    called =>
        \A k \in DOMAIN result :
            /\ result[k].after # result[k].before
            /\ \E line \in {split(result[k].diff, <<>>, <<>>)[i] :
                               i \in DOMAIN split(result[k].diff, <<>>, <<>>)} :
                   line # <<>> /\ line[1] \in {"+ ", "- "}

\* C19, witness: a patch that only adds lines behind the end of the file.
C19_Witness ==
    /\ called
    /\ Len(result) = 1
    /\ result[1].findingId = "docker-missing-user"
    /\ Len(result[1].after) > Len(result[1].before)
    /\ SubSeq(result[1].after, 1, Len(result[1].before)) = result[1].before

(***************************************************************************)
(* generatePatches on a list of findings.  Any object with id, category    *)
(* and resource can be passed; two findings may have the same id.          *)
(***************************************************************************)
MaxBatch == 2

\* Findings with a template (one of them with two), and one without.
BatchFindings ==
    [id : {"docker-missing-user", "k8s-privileged-container", "trivy-X"},
     category : {<<"kubernetes-resource-mgmt">>, <<"trivy-config">>},
     resource : Resources]

\* What a resource can be: not readable, a content without USER and
\* without securityContext, and one with both that lacks only resources.
BatchFiles ==
    {Unreadable,
     Readable(<<"FROM node:20", NL, "    containers:", NL, "    - name: app", NL>>),
     Readable(<<"    securityContext:", NL, "    containers:", NL, "    - name: app", NL,
                "USER appuser", NL>>)}

PatchInit ==
    /\ Idle
    /\ arg \in [findings : UNION {[1..n -> BatchFindings] : n \in 0..MaxBatch},
                files : [Resources -> BatchFiles]]
    /\ result = <<>>
    /\ called = FALSE

EnginePatches ==
    /\ ~called
    /\ result' = generatePatches(arg.findings, arg.files)
    /\ called' = TRUE
    /\ UNCHANGED <<arg, hardenVars>>

PatchSpec == PatchInit /\ [][EnginePatches]_vars

\* The templates whose predicate matches the finding.
Matching(finding) == {k \in DOMAIN templates : findingPattern(templates[k], finding)}

\* finding i contributes: a template matches, its resource is read, and
\* the first matching template changes the content.
Contributes(findings, files, i) ==
    /\ Matching(findings[i]) # {}
    /\ files[findings[i].resource].readable
    /\ \E k \in Matching(findings[i]) :
           /\ \A l \in Matching(findings[i]) : k <= l
           /\ transform(templates[k], files[findings[i].resource].content)
                  # files[findings[i].resource].content

\* The place in findings of the j-th contributing finding.
Contributor(findings, files, j) ==
    CHOOSE i \in DOMAIN findings :
        /\ Contributes(findings, files, i)
        /\ Cardinality({h \in 1..i : Contributes(findings, files, h)}) = j

\* C18: generatePatches returns, whatever the findings and the files, one
\* patch for every finding that has a matching template, a readable
\* resource and a transformation that changes the content, none for the
\* other findings, in finding order, each made by the first matching
\* template from the content of the finding's resource.
C18_OnePatchPerContributingFinding ==
    called =>
        /\ Len(result) =
               Cardinality({i \in DOMAIN arg.findings :
                               Contributes(arg.findings, arg.files, i)})
        /\ \A j \in DOMAIN result :
               LET finding == arg.findings[Contributor(arg.findings, arg.files, j)]
                   first == CHOOSE k \in Matching(finding) :
                                \A l \in Matching(finding) : k <= l
               IN /\ result[j].findingId = finding.id
                  /\ result[j].resource = finding.resource
                  /\ result[j].type = templates[first].type
                  /\ result[j].before = arg.files[finding.resource].content
                  /\ result[j].after = transform(templates[first], result[j].before)

\* C18, witness: a patch is made, then a resource cannot be read; the
\* patch is returned.
C18_Witness ==
    /\ called
    /\ Len(arg.findings) = 2
    /\ Contributes(arg.findings, arg.files, 1)
    /\ Matching(arg.findings[2]) # {}
    /\ ~arg.files[arg.findings[2].resource].readable
    /\ Len(result) = 1
    /\ result[1].findingId = arg.findings[1].id

(***************************************************************************)
(* Steps 1.5, 3 and 4 of harden on the findings of a scan: the unique      *)
(* findings are patched and the patches validated.                         *)
(***************************************************************************)
MaxScan == 2

\* The strings of the findings of the scan, as sequences of characters.
ScanText ==
    [configReader |->
         <<"c", "o", "n", "f", "i", "g", "-", "r", "e", "a", "d", "e", "r">>,
     trivy |->
         <<"t", "r", "i", "v", "y">>,
     dockerfile |->
         <<"d", "o", "c", "k", "e", "r", "f", "i", "l", "e">>,
     nginxConfig |->
         <<"n", "g", "i", "n", "x", "-", "c", "o", "n", "f", "i", "g">>,
     kubernetesPodSecurity |->
         <<"k", "u", "b", "e", "r", "n", "e", "t", "e", "s", "-", "p", "o", "d",
           "-", "s", "e", "c", "u", "r", "i", "t", "y">>,
     helmValues |->
         <<"h", "e", "l", "m", "-", "v", "a", "l", "u", "e", "s">>,
     trivyConfig |->
         <<"t", "r", "i", "v", "y", "-", "c", "o", "n", "f", "i", "g">>,
     high |->
         <<"h", "i", "g", "h">>,
     critical |->
         <<"c", "r", "i", "t", "i", "c", "a", "l">>,
     serverTokensExposed |->
         <<"S", "e", "r", "v", "e", "r", " ", "t", "o", "k", "e", "n", "s", " ",
           "e", "x", "p", "o", "s", "e", "d">>,
     noUserDirective |->
         <<"N", "o", " ", "U", "S", "E", "R", " ", "d", "i", "r", "e", "c", "t",
           "i", "v", "e", " ", "s", "p", "e", "c", "i", "f", "i", "e", "d">>,
     privilegedContainerDetected |->
         <<"P", "r", "i", "v", "i", "l", "e", "g", "e", "d", " ", "c", "o", "n",
           "t", "a", "i", "n", "e", "r", " ", "d", "e", "t", "e", "c", "t", "e",
           "d">>,
     containerMayRunAsRoot |->
         <<"C", "o", "n", "t", "a", "i", "n", "e", "r", " ", "m", "a", "y", " ",
           "r", "u", "n", " ", "a", "s", " ", "r", "o", "o", "t">>,
     helmPrivilegedMode |->
         <<"H", "e", "l", "m", " ", "c", "h", "a", "r", "t", " ", "e", "n", "a",
           "b", "l", "e", "s", " ", "p", "r", "i", "v", "i", "l", "e", "g", "e",
           "d", " ", "m", "o", "d", "e">>]

\* m.Title of a misconfiguration in a Trivy report.
TrivyTitles == {<<"R", "o", "o", "t">>, <<"r", "o", "o", "t", " ">>, <<"T", "a", "g">>}

\* What ConfigReader makes: id, tool, title, severity, category,
\* description and confidence (in hundredths) are those of the check, the
\* resource is the file read and the evidence what was matched in it (the
\* container of the manifests is named app); for a Trivy report id and
\* title come from the report, which has no description and no message.
ScanFindings ==
    {[id |-> "nginx-server-tokens-exposed", tool |-> ScanText.configReader, resource |-> r,
      title |-> ScanText.serverTokensExposed, severity |-> ScanText.high, category |-> ScanText.nginxConfig,
      description |-> "Nginx configuration issue: Server tokens exposed",
      evidence |-> "server_tokens on", confidence |-> 95] :
        r \in Resources}
    \cup
    {[id |-> "docker-missing-user", tool |-> ScanText.configReader, resource |-> r,
      title |-> ScanText.noUserDirective, severity |-> ScanText.high, category |-> ScanText.dockerfile,
      description |-> "Container will run as root by default",
      evidence |-> "No USER instruction found", confidence |-> 100] :
        r \in Resources}
    \cup
    {[id |-> "k8s-privileged-container", tool |-> ScanText.configReader, resource |-> r,
      title |-> ScanText.privilegedContainerDetected, severity |-> ScanText.critical,
      category |-> ScanText.kubernetesPodSecurity,
      description |-> "Container is running with privileged flag",
      evidence |-> "app: privileged: true", confidence |-> 95] : r \in Resources}
    \cup
    {[id |-> "k8s-container-may-run-as-root", tool |-> ScanText.configReader, resource |-> r,
      title |-> ScanText.containerMayRunAsRoot, severity |-> ScanText.high,
      category |-> ScanText.kubernetesPodSecurity,
      description |-> "No runAsNonRoot enforced",
      evidence |-> "app: runAsNonRoot not set", confidence |-> 85] : r \in Resources}
    \cup
    {[id |-> "helm-privileged-true", tool |-> ScanText.configReader, resource |-> r,
      title |-> ScanText.helmPrivilegedMode, severity |-> ScanText.critical, category |-> ScanText.helmValues,
      description |-> "privileged is set to true in values",
      evidence |-> "privileged: true", confidence |-> 90] :
        r \in Resources}
    \cup
    {[id |-> "trivy-X", tool |-> ScanText.trivy, resource |-> "r1",
      title |-> t, severity |-> ScanText.high, category |-> ScanText.trivyConfig,
      description |-> "Trivy config misconfiguration",
      evidence |-> "Trivy finding", confidence |-> 90] : t \in TrivyTitles}

\* The files of the target when the patches are generated.
RunFiles ==
    {Unreadable,
     Readable(<<"server {", NL, "  listen 80;", NL, "server_tokens on;", NL, "}", NL>>),
     Readable(<<"FROM node:20", NL, "CMD run", NL>>),
     Readable(<<"kind: Pod", NL, "spec:", NL, "    containers:", NL,
                "    - name: app", NL>>),
     Readable(<<"    privileged: true", NL>>)}

\* The number of places of content with a token of tokens.
Count(content, tokens) == Cardinality({i \in DOMAIN content : content[i] \in tokens})

\* validateNginx wants balanced braces and a content that is not empty,
\* validateDocker a FROM line (no line of the contents is a directive
\* without a blank), validateKubernetes a kind line (every line of the
\* contents has an even indentation); any other type fails.
validatePatch(patch) ==
    [patchId |-> patch.id,
     passed |->
         CASE patch.type = "nginx" ->
                  /\ Count(patch.after, {"server {"}) = Count(patch.after, {"}"})
                  /\ \E i \in DOMAIN patch.after : patch.after[i] # NL
           [] patch.type = "docker" ->
                  Has(patch.after, {"FROM node:20", "FROM node:latest", "FROM myapp:latest",
                                    "FROM node:20.11.0-alpine", "FROM myapp:1.0.0"})
           [] patch.type = "kubernetes" -> Has(patch.after, {"kind: Pod"})
           [] OTHER -> FALSE]

\* The findings are patched as they were scanned.
scannedFindings(findings) == findings

\* groupingResult.uniqueFindings, the findings that are patched.
uniqueFindings(findings) == groupFindings(findings).uniqueFindings

RunInit ==
    /\ Idle
    /\ arg \in [findings : UNION {[1..n -> ScanFindings] : n \in 0..MaxScan},
                files : [Resources -> RunFiles]]
    /\ result = <<>>
    /\ called = FALSE

HardenSteps ==
    /\ ~called
    /\ LET unique == uniqueFindings(arg.findings)
           made == generatePatches(unique, arg.files)
       IN result' = [uniqueFindings |-> unique,
                     patches |-> made,
                     validationResults |-> [j \in DOMAIN made |-> validatePatch(made[j])]]
    /\ called' = TRUE
    /\ UNCHANGED <<arg, hardenVars>>

RunSpec == RunInit /\ [][HardenSteps]_vars

MaxReport == 2

\* A string of the scan as the scorer reads it.
RECURSIVE Str(_)
Str(chars) ==
    IF chars = <<>> THEN ""
    ELSE IF Len(chars) = 1 THEN chars[1]
    ELSE LET half == Len(chars) \div 2
         IN Str(SubSeq(chars, 1, half)) \o Str(SubSeq(chars, half + 1, Len(chars)))

\* The finding handed to the scorer: the same strings, each text one phrase.
asText(finding) ==
    [id |-> finding.id,
     resource |-> finding.resource,
     severity |-> Str(finding.severity),
     title |-> {Str(finding.title)},
     description |-> {finding.description},
     evidence |-> {finding.evidence},
     category |-> {Str(finding.category)},
     confidence |-> finding.confidence]

\* The number of the unique findings with this severity (bySeverity).
bySeverity(unique, severity) ==
    Cardinality({i \in DOMAIN unique : unique[i].severity = severity})

\* Mutant: the findings that were grouped away are not counted.
reportStatisticsOfUnique(findings, groupingResult, ps, vr, rr) ==
    [totalFindings |-> Len(groupingResult.uniqueFindings),
     uniqueFindings |-> Len(groupingResult.uniqueFindings),
     duplicateFindings |-> groupingResult.duplicateCount,
     byCategory |->
         [c \in {groupingResult.uniqueFindings[i].category :
                     i \in DOMAIN groupingResult.uniqueFindings} |->
             Cardinality({i \in DOMAIN groupingResult.uniqueFindings :
                             groupingResult.uniqueFindings[i].category = c})],
     criticalCount |-> bySeverity(groupingResult.uniqueFindings, ScanText.critical),
     highCount |-> bySeverity(groupingResult.uniqueFindings, ScanText.high),
     noiseReductionPercent |-> groupingResult.noiseReductionPercent,
     groupCount |-> Len(groupingResult.groups),
     rates |-> computeStatistics(ps, vr, rr)]

\* computeStatistics with the fields that are computed from the findings;
\* rates holds patchedCount and the two rates, each as the two numbers it
\* is the quotient of.
reportStatistics(findings, groupingResult, ps, vr, rr) ==
    [totalFindings |-> Len(findings),
     uniqueFindings |-> Len(groupingResult.uniqueFindings),
     duplicateFindings |-> groupingResult.duplicateCount,
     byCategory |->
         [c \in {groupingResult.uniqueFindings[i].category :
                     i \in DOMAIN groupingResult.uniqueFindings} |->
             Cardinality({i \in DOMAIN groupingResult.uniqueFindings :
                             groupingResult.uniqueFindings[i].category = c})],
     criticalCount |-> bySeverity(groupingResult.uniqueFindings, ScanText.critical),
     highCount |-> bySeverity(groupingResult.uniqueFindings, ScanText.high),
     noiseReductionPercent |-> groupingResult.noiseReductionPercent,
     groupCount |-> Len(groupingResult.groups),
     rates |-> computeStatistics(ps, vr, rr)]

\* The critical findings and the Trivy findings of the scan of one file,
\* the files of the target, the options of a run that is asked to apply
\* (it is a dry run all the same when dryRun is set) and the number of
\* patch files the file system lets the run write.
ReportInit ==
    /\ Idle
    /\ arg \in [findings :
                    UNION {[1..n -> {f \in ScanFindings :
                                        /\ f.resource = "r1"
                                        /\ \/ f.severity = ScanText.critical
                                           \/ f.tool = ScanText.trivy}] :
                               n \in 0..MaxReport},
                files : {[r \in Resources |-> IF r = "r1" THEN file ELSE Unreadable] :
                             file \in RunFiles},
                options : {o \in OptionSet : o.apply},
                writes : 0..MaxReport]
    /\ result = <<>>
    /\ called = FALSE

\* harden, from the scan to the report it returns.  applyPatches stops at
\* the first write that fails; rollback restores every entry of the
\* snapshot, one for each patch.
HardenReport ==
    /\ ~called
    /\ LET findings == arg.findings
           groupingResult == groupFindings(findings)
           prioritizedPlan ==
               scoreFindings([i \in DOMAIN groupingResult.uniqueFindings |->
                                 asText(groupingResult.uniqueFindings[i])])
           made == generatePatches(groupingResult.uniqueFindings, arg.files)
           results == [j \in DOMAIN made |-> validatePatch(made[j])]
           passRate ==
               [num |-> PassedCount(results), den |-> Len(results)]
           applied ==
               [j \in DOMAIN made |->
                   [made[j] EXCEPT !.applied =
                       ApplyRequested(arg.options) /\ j <= arg.writes]]
           restored ==
               IF /\ ApplyRequested(arg.options)
                  /\ RollbackTriggered(arg.options, passRate, "id")
               THEN [j \in DOMAIN made |-> [patchId |-> made[j].id, success |-> TRUE]]
               ELSE <<>>
       IN result' = [findings |-> findings,
                     groupedFindings |-> groupingResult.groups,
                     prioritizedPlan |-> prioritizedPlan,
                     patches |-> applied,
                     validationResults |-> results,
                     rollbackResults |-> restored,
                     statistics |->
                         reportStatistics(findings, groupingResult, applied, results,
                                          restored)]
    /\ called' = TRUE
    /\ UNCHANGED <<arg, hardenVars>>

ReportSpec == ReportInit /\ [][HardenReport]_vars

\* C21: every report is consistent: totalFindings is the number of the
\* findings of the scan, uniqueFindings + duplicateFindings = totalFindings,
\* groupCount is the number of the groups, of the unique findings and of
\* the entries of the plan, every patch has its one validation result,
\* validationPassRate is in [0, 1] and is 1 when there is no patch, and
\* patchedCount is at most the number of the patches.
C21_ReportConsistent ==
    called =>
        LET s == result.statistics
        IN /\ s.totalFindings = Len(result.findings)
           /\ result.findings = arg.findings
           /\ s.uniqueFindings + s.duplicateFindings = s.totalFindings
           /\ s.groupCount = Len(result.groupedFindings)
           /\ s.groupCount = s.uniqueFindings
           /\ s.groupCount = Len(result.prioritizedPlan)
           /\ Len(result.validationResults) = Len(result.patches)
           /\ \A j \in DOMAIN result.patches :
                  Cardinality({k \in DOMAIN result.validationResults :
                                  result.validationResults[k].patchId = result.patches[j].id}) = 1
           /\ s.rates.validated > 0
           /\ 0 <= s.rates.passed /\ s.rates.passed <= s.rates.validated
           /\ result.patches = <<>> => s.rates.passed = s.rates.validated
           /\ s.rates.patchedCount <= Len(result.patches)

\* C21, witness: a scan with a duplicate, whose one patch fails its
\* validation and is written.
C21_Witness ==
    /\ called
    /\ result.statistics.totalFindings = 2
    /\ result.statistics.duplicateFindings = 1
    /\ Len(result.prioritizedPlan) = 1
    /\ Len(result.patches) = 1
    /\ result.statistics.rates.passed = 0
    /\ result.statistics.rates.patchedCount = 1

(***************************************************************************)
(* Claims about the end of a run (Spec).                                   *)
(***************************************************************************)
\* C22: the history is complete and append-only: once Step 6 is behind the
\* run, every call of rollback has its one record in the history, with the
\* id of the snapshot and the results of that call.
C22_HistoryComplete ==
    PastStep6 =>
        /\ Len(history) = Cardinality(RollbackCalls)
        /\ \A k \in DOMAIN history :
               /\ history[k].snapshotId = snapshotId
               /\ history[k].details = rollbackResults

\* The writes rollback has attempted, in order.
RestoreEvents == SelectSeq(io, LAMBDA e : e.op \in {"restore", "restoreFail"})

\* C23: when the snapshot was loaded, rollback has one result for each
\* entry it has attempted, in the order of the entries, with the patchId of
\* the entry and success exactly when the write of the entry succeeded;
\* when rollback has returned, every entry of the snapshot was attempted,
\* whatever writes failed before it.
C23_OneResultPerEntry ==
    (\E k \in DOMAIN io : io[k].op = "load") =>
        /\ loaded = snapshotFile[1]
        /\ Len(rollbackResults) = Len(RestoreEvents)
        /\ Len(rollbackResults) <= Len(loaded)
        /\ \A k \in DOMAIN rollbackResults :
               /\ RestoreEvents[k].patchId = loaded[k].patchId
               /\ RestoreEvents[k].resource = loaded[k].resource
               /\ rollbackResults[k] =
                      [patchId |-> loaded[k].patchId,
                       success |-> RestoreEvents[k].op = "restore"]
        /\ PastStep6 => Len(rollbackResults) = Len(loaded)

\* C23, witness: the write of the first of two entries fails and the
\* second entry is restored.
C23_Witness ==
    /\ PastStep6
    /\ Len(loaded) = 2
    /\ Len(RestoreEvents) = 2
    /\ RestoreEvents[1].op = "restoreFail"
    /\ RestoreEvents[2].op = "restore"
    /\ rollbackResults = <<[patchId |-> loaded[1].patchId, success |-> FALSE],
                           [patchId |-> loaded[2].patchId, success |-> TRUE]>>

(***************************************************************************)
(* Validator.validateDocker: the text of a patch is a sequence of          *)
(* characters, the regular expressions are computed on them.               *)
(***************************************************************************)
MaxWords == 3

\* The keywords of the second regular expression.
Directives ==
    {<<"R", "U", "N">>, <<"C", "M", "D">>,
     <<"E", "N", "T", "R", "Y", "P", "O", "I", "N", "T">>,
     <<"C", "O", "P", "Y">>, <<"A", "D", "D">>,
     <<"W", "O", "R", "K", "D", "I", "R">>, <<"U", "S", "E", "R">>,
     <<"E", "X", "P", "O", "S", "E">>, <<"E", "N", "V">>, <<"A", "R", "G">>,
     <<"H", "E", "A", "L", "T", "H", "C", "H", "E", "C", "K">>,
     <<"O", "N", "B", "U", "I", "L", "D">>, <<"L", "A", "B", "E", "L">>}

\* /^(keyword|...)\s+/i.test(line)
testDirective(keywords, line) ==
    \E keyword \in keywords :
        /\ Len(line) > Len(keyword)
        /\ toLowerCase(SubSeq(line, 1, Len(keyword))) = toLowerCase(keyword)
        /\ line[Len(keyword) + 1] \in WhiteSpace

validateDocker(patch) ==
    LET afterLines == split(patch.after, <<>>, <<>>)
        hasFrom ==
            \E i \in DOMAIN afterLines :
                testDirective({<<"F", "R", "O", "M">>}, afterLines[i])
        invalidDirectives ==
            {i \in DOMAIN afterLines :
                /\ testDirective(Directives, afterLines[i])
                /\ \A k \in DOMAIN afterLines[i] : afterLines[i][k] # " "}
    IN [patchId |-> patch.id,
        passed |-> hasFrom /\ invalidDirectives = {}]

\* The lines made of at most n words and blanks.
RECURSIVE DockerLines(_)
DockerLines(n) ==
    IF n = 0 THEN {<<>>}
    ELSE DockerLines(n - 1) \cup
         {line \o word :
             line \in DockerLines(n - 1),
             word \in {<<"F", "R", "O", "M">>, <<"R", "U", "N">>, <<"u", "s", "e", "r">>,
                       <<" ">>, <<"\t">>, <<"n", "o", "d", "e">>}}

\* A patch of type docker whose text is one line, alone or after the line
\* FROM node.
DockerInit ==
    /\ Idle
    /\ \E line \in DockerLines(MaxWords) :
           arg \in {[id |-> "patch-1", type |-> "docker", after |-> after] :
                       after \in {line,
                                  <<"F", "R", "O", "M", " ", "n", "o", "d", "e", NL>> \o line}}
    /\ result = <<>>
    /\ called = FALSE

ValidateDocker ==
    /\ ~called
    /\ result' = validateDocker(arg)
    /\ called' = TRUE
    /\ UNCHANGED <<arg, hardenVars>>

DockerSpec == DockerInit /\ [][ValidateDocker]_vars

\* FROM, blanks and an image.
FromImage(line) ==
    /\ testDirective({<<"F", "R", "O", "M">>}, line)
    /\ Len(trim(line)) > 4

\* A keyword and nothing after it but blanks.
BareDirective(line) ==
    \E keyword \in Directives : toLowerCase(trim(line)) = toLowerCase(keyword)

\* C24: a patch of type docker passes exactly when some line of its text
\* is a FROM directive with an image and no line is a directive keyword
\* without an argument.
C24_DockerVerdict ==
    called =>
        LET afterLines == split(arg.after, <<>>, <<>>)
        IN result.passed <=>
               /\ \E i \in DOMAIN afterLines : FromImage(afterLines[i])
               /\ \A i \in DOMAIN afterLines : ~BareDirective(afterLines[i])

\* C25: every template is idempotent: when generatePatches makes a patch
\* for a finding and a file, it makes no patch for the same finding and a
\* file whose content is the after of that patch.
C25_TemplatesIdempotent ==
    called =>
        \A k \in DOMAIN result :
            generatePatches(<<arg.finding>>,
                            [r \in {"r1"} |-> Readable(result[k].after)]) = <<>>

\* The place of a step in the order of the stages of harden.
StageRank(at) ==
    CASE at = "generate" -> 1
      [] at = "validate" -> 2
      [] at = "step5" -> 3
      [] at \in {"createSnapshot", "snapshotRead"} -> 4
      [] at = "applyPatches" -> 5
      [] at = "step6" -> 6
      [] at \in {"rollback", "rollbackLoop"} -> 7
      [] at = "report" -> 8
      [] OTHER -> 9

StageOfEvent(e) ==
    CASE e.stage = "snapshot" -> 4
      [] e.stage = "apply" -> 5
      [] OTHER -> 7

\* C26, in every state: the file system is touched for the snapshot, then
\* for the patches, then for the rollback, and only when every patch has
\* the result of its validation, failed or not; the statistics are
\* computed and the report returned only at the end of a run that did
\* not throw.
C26_StagesInState ==
    /\ \A j, k \in DOMAIN io : j < k => StageOfEvent(io[j]) <= StageOfEvent(io[k])
    /\ \A k \in DOMAIN io : StageOfEvent(io[k]) <= StageRank(pc)
    /\ (io # <<>> \/ StageRank(pc) > 2) =>
           validationResults = [i \in DOMAIN patches |-> ValidatePatch(patches[i])]
    /\ statistics.computed <=> outcome = "report"
    /\ outcome = "report" <=> pc \in {"done", "exit"}
    /\ outcome = "throw" => pc \in {"failed", "exit"}

HelmAndComposePatches ==
    UNION {{generatePatches(<<[id |-> id, category |-> <<"dockerfile">>, resource |-> "r1"]>>,
                            [r \in {"r1"} |-> Readable(content)])[k] :
                k \in DOMAIN generatePatches(
                                 <<[id |-> id, category |-> <<"dockerfile">>, resource |-> "r1"]>>,
                                 [r \in {"r1"} |-> Readable(content)])} :
           id \in {"helm-image-using-latest-tag", "helm-run-as-non-root-false",
                   "helm-privileged-true", "docker-compose-using-latest-tag",
                   "docker-compose-privileged", "docker-compose-root-user",
                   "docker-compose-read-only-fs"},
           content \in TemplateContents}

\* A patch of a Helm template, or of a Compose template for a file that
\* has no FROM line, fails its validation.
HelmAndComposeFail ==
    \A patch \in HelmAndComposePatches :
        (\/ patch.type = "custom"
         \/ /\ patch.type = "docker"
            /\ ~Has(patch.before, {"FROM node:20", "FROM node:latest", "FROM myapp:latest",
                                   "FROM node:20.11.0-alpine", "FROM myapp:1.0.0"}))
        => ~validatePatch(patch).passed

\* The run is over, it was asked to apply with rollback enabled, and a
\* patch of a type without a validator is among its patches.
EndedWithCustomPatch ==
    /\ pc \in {"done", "failed"}
    /\ ApplyRequested(options) /\ options.enableRollback
    /\ \E i \in DOMAIN patches : patches[i].type = "custom"

\* C27 as stated: the patches of the Helm and of the Compose templates
\* fail validation, and an apply run with rollback enabled that has such
\* a patch ends with every entry of its snapshot attempted by rollback,
\* the entries of the patches that passed validation too.
C27_FailingPatchRollsBack ==
    /\ pc = "generate" => HelmAndComposeFail
    /\ EndedWithCustomPatch =>
           \A e \in SnapshotEntries :
               \E k \in RestoreCalls :
                   io[k].patchId = e.patchId /\ io[k].resource = e.resource

\* C27, amended: the same, provided rollback could load the snapshot
\* document; the validation of the custom patch has failed, and rollback
\* was called whenever the snapshot was made.
C27_FailingPatchRollsBackLoadable ==
    /\ pc = "generate" => HelmAndComposeFail
    /\ EndedWithCustomPatch =>
           /\ \E i \in DOMAIN patches : ~validationResults[i].passed
           /\ snapshotFile # <<>> => Cardinality(RollbackCalls) = 1
           /\ (\E k \in RollbackCalls : io[k].op = "load") =>
                  \A e \in SnapshotEntries :
                      \E k \in RestoreCalls :
                          io[k].patchId = e.patchId /\ io[k].resource = e.resource

\* C27, witness: a custom patch and a patch that passed validation, on two
\* resources, were both written and both restored.
C27_Witness ==
    /\ pc = "done"
    /\ options.enableRollback
    /\ Len(patches) = 2
    /\ patches[1].type = "custom" /\ patches[2].type = "nginx"
    /\ patches[1].resource # patches[2].resource
    /\ validationResults[2].passed
    /\ Cardinality(ApplyWrites) = 2
    /\ \A i \in {1, 2} :
           \E k \in DOMAIN io : io[k].op = "restore" /\ io[k].patchId = i
    /\ HelmAndComposePatches # {}

\* C28: when the Apply stage has ended with no failed write and rollback
\* was not called, the file of every patch that is marked applied holds
\* the after of that patch.
C28_DiskHoldsAppliedPatches ==
    (PastStep6 /\ applyResult = "true" /\ RollbackCalls = {}) =>
        \A i \in DOMAIN patches :
            patches[i].applied => disk[patches[i].resource] = patches[i].after

\* The resources a rollback write has restored.
Restored == {io[k].resource : k \in {j \in DOMAIN io : io[j].op = "restore"}}

\* C29: in the report of a run, no patch of a resource that rollback has
\* restored is marked applied, and patchedCount counts no such patch.
C29_AppliedMeansOnDisk ==
    pc = "done" =>
        /\ \A i \in DOMAIN patches :
               patches[i].resource \in Restored => ~patches[i].applied
        /\ statistics.patchedCount <=
               Cardinality({i \in DOMAIN patches : patches[i].resource \notin Restored})

\* C30: a run that was asked to apply with rollback enabled does not end
\* with a part of its patches on disk: at its end every patch was written,
\* or every resource of the snapshot holds what it held before the run;
\* and a write of the Apply stage that failed was followed by a rollback.
C30_AllOrNothing ==
    (pc \in {"done", "failed"} /\ applyResult # "none" /\ options.enableRollback) =>
        /\ \/ Cardinality(ApplyWrites) = Len(patches)
           \/ \A e \in SnapshotEntries : disk[e.resource] = origDisk[e.resource]
        /\ (\E k \in DOMAIN io : io[k].op = "writeFail") => RollbackCalls # {}

====
